---- MODULE Spec2Model ----
(***************************************************************************)
(* Model of the roundtable discussion engine                               *)
(* (src/src/services/discussion-engine.ts) and of the completion client    *)
(* it calls.  runDiscussion / runRound / runExpertTurn are async           *)
(* generators: the code between two suspension points (a yield, or an      *)
(* await on the completion client) runs atomically, so every action below  *)
(* is one such stretch of code, and pc names the suspension point the      *)
(* generator is parked at.                                                  *)
(*                                                                         *)
(* Scores are kept in hundredths (0.85 is 85).                             *)
(***************************************************************************)
EXTENDS Integers, Sequences, FiniteSets, TLC

\* ------------------------------------------------------------------ bounds
MaxRounds == 4
MaxExperts == 2
\* fragments the completion streams deliver over one run
MaxTokens == 1
\* completion-stream failures over one run
MaxFailures == 1
\* addModeratorMessage calls over one run
MaxModeratorMsgs == 1
\* runs of at most this many turns get the environment's full budget of
\* fragments, failures and moderator messages; longer runs get none
ShortRun == 4

\* turns of the one round the style specification runs
MaxStyleTurns == 7
\* moderator messages of one run of the interjection and service specifications
MaxInterjections == 2
\* updateExpert calls during one served run
MaxEdits == 1
\* fragments the streams deliver over one run of the turn specification
MaxRequests == 2
MaxChecks == 6
MaxConfiguredRetries == 4
MaxCalls == 2
MaxTicks == 2
MaxFragments == 2

\* ------------------------------------------------------- program constants
DEBATE_STYLES == <<"agreeable", "challenging", "questioning", "building", "contrasting">>

\* consensus threshold of the early-consensus check, in hundredths
ConsensusThreshold == 85
\* first round in which the early-consensus check can fire
EarlyConsensusMinRound == 3
\* analyzeConsensus answers 0 below this many messages
MinMessagesForConsensus == 5
\* score used when the analysis fails or does not parse, in hundredths
DefaultConsensus == 50
\* final-round scheduling needs at least this many configured rounds
FinalRoundMinTotal == 4

\* ------------------------------------------------------------ input domains
NoModel == "none"
DefaultModel == "m0"
OverrideModels == {"m1"}
\* fragments the stream may deliver; each is one whole sentence
Tokens == {"Ok.", "Cache every page at the edge."}
ModeratorContents == {"q", "r"}

\* replies of the consensus-analysis completion call (already trimmed)
ConsensusResponses == {"0.85", "0.9", "1.7", "-2", "abc"}

VARIABLES
  config,          \* DiscussionConfig: totalRounds, experts, moderatorMode, model
  envApiKey,       \* process.env.OPENROUTER_API_KEY is set
  state,           \* DiscussionState
  llmClients,      \* keys of the llmClients map (model identifiers)
  pc,              \* suspension point of the runDiscussion generator
  round,           \* loop variable of runDiscussion
  expertOrder,     \* expertOrder of the running runRound
  turnIdx,         \* position of the running turn in expertOrder
  debateStyle,     \* debateStyle of the running turn
  fullContent,     \* accumulator of the running turn
  events,          \* events yielded since the running round began
  roundLog,        \* every round_complete event yielded by the run
  streamCalls,     \* generateStream invocations of the running turn
  consensusCalls,  \* generateResponse invocations made by analyzeConsensus
  analysisOutcome, \* how the running round's generateResponse call ended
  prompt,          \* prompt of the running turn, once built
  stream,          \* the running turn's generateStream call: its client's model, its temperature
  clientObjects,   \* models of the client objects the engine has held, in order of arrival
  discussion,      \* the stored discussion the stream route serves
  rosterAtStart,   \* config.experts as it was when the engine was constructed
  isAborted,       \* isAborted of the stream route: its client has disconnected
  sent,            \* number of events the consumer of the run has passed on to its client
  eventsAfterAbort,\* events the engine has yielded since the client disconnected
  clientStore,     \* the browser's discussion store
  llm,             \* an LLMClient and the call in progress on it
  rateLimiter,     \* the RateLimiter singleton: its entries, and the clock
  checkLog,        \* what the callers of checkRateLimit have seen so far
  budget           \* what the environment may still do: failures, tokens, moderator messages, edits

vars == <<config, envApiKey, state, llmClients, pc, round, expertOrder, turnIdx,
          debateStyle, fullContent, events, roundLog, streamCalls, consensusCalls,
          analysisOutcome, prompt, stream, clientObjects, discussion, rosterAtStart,
          isAborted, sent, eventsAfterAbort, clientStore, llm, rateLimiter, checkLog, budget>>

\* ------------------------------------------------------------------ helpers
Range(s) == {s[i] : i \in 1..Len(s)}

Min(a, b) == IF a < b THEN a ELSE b
Max(a, b) == IF a > b THEN a ELSE b

Last(s) == s[Len(s)]

\* indexes of the events of the given type
IndexesOf(evs, type) == {i \in 1..Len(evs) : evs[i].type = type}

CountOf(evs, type) == Cardinality(IndexesOf(evs, type))

\* Array.prototype.slice(-n)
SliceLast(s, n) == IF Len(s) <= n THEN s ELSE SubSeq(s, Len(s) - n + 1, Len(s))

\* all orderings of the roster
Orderings(roster) ==
  {p \in [1..Len(roster) -> Range(roster)] : \A e \in Range(roster) : \E i \in 1..Len(roster) : p[i] = e}

\* shuffleArray of @/lib/utils: some permutation of the array, the argument untouched
shuffleArray(roster) == Orderings(roster)

\* randomChoice of @/lib/utils: some element of the array
randomChoice(arr) == Range(arr)

\* rosters: expert i of a roster carries id i and possibly a model override
Rosters ==
  UNION {[1..n -> [id : 1..MaxExperts, aiModel : {NoModel} \cup OverrideModels]] : n \in 1..MaxExperts}

ValidRoster(r) == \A i \in 1..Len(r) : r[i].id = i

HasOverride(roster) == \E i \in 1..Len(roster) : roster[i].aiModel # NoModel

\* the configurations explored.  Every expert speaks in round 1, so every client
\* is resolved there: rosters with a model override are run for one round.
Configs ==
  {c \in [totalRounds : 1..MaxRounds, experts : {r \in Rosters : ValidRoster(r)},
          moderatorMode : BOOLEAN, model : {DefaultModel}] :
     HasOverride(c.experts) => c.totalRounds = 1}

Turns(c) == Len(c.experts) * c.totalRounds

NoBudget == [failures |-> 0, tokens |-> 0, moderator |-> 0, edits |-> 0]
FullBudget ==
  [failures |-> MaxFailures, tokens |-> MaxTokens, moderator |-> MaxModeratorMsgs, edits |-> 0]

\* ------------------------------------------------------------------- events
ExpertStartEvent(expert, roundNum, style) ==
  [type |-> "expert_start", expertId |-> expert.id, round |-> roundNum, debateStyle |-> style]

TokenEvent(token) == [type |-> "token", content |-> token]

ExpertCompleteEvent(message) ==
  [type |-> "expert_complete", messageId |-> message.id, expertId |-> message.expertId,
   fullContent |-> message.content]

ErrorEvent(expert) == [type |-> "error", expertId |-> expert.id]

ModeratorPromptEvent(expert) == [type |-> "moderator_prompt", expertId |-> expert.id]

RoundCompleteEvent(roundNum, score) ==
  [type |-> "round_complete", round |-> roundNum, consensusScore |-> score]

DiscussionCompleteEvent == [type |-> "discussion_complete"]

\* ------------------------------------------------------------ pure functions
\* mutant: a free choice is made among all styles, used or not
getDebateStyle_NoFilter(used) ==
  LET availableStyles == SelectSeq(DEBATE_STYLES, LAMBDA style : style \notin Range(used))
  IN  IF Len(availableStyles) = 0
        THEN {[style |-> s, used |-> <<>>] : s \in randomChoice(DEBATE_STYLES)}
      ELSE IF "challenging" \notin Range(used) /\ Len(used) >= 2
        THEN {[style |-> "challenging", used |-> Append(used, "challenging")]}
      ELSE {[style |-> s, used |-> Append(used, s)] : s \in randomChoice(DEBATE_STYLES)}

\* mutant: challenging is forced from the fourth turn of a round on
getDebateStyle_ForcesLate(used) ==
  LET availableStyles == SelectSeq(DEBATE_STYLES, LAMBDA style : style \notin Range(used))
  IN  IF Len(availableStyles) = 0
        THEN {[style |-> s, used |-> <<>>] : s \in randomChoice(DEBATE_STYLES)}
      ELSE IF "challenging" \notin Range(used) /\ Len(used) >= 3
        THEN {[style |-> "challenging", used |-> Append(used, "challenging")]}
      ELSE {[style |-> s, used |-> Append(used, s)] : s \in randomChoice(availableStyles)}

\* mutant: a freely chosen style is not recorded as used
getDebateStyle_NoPush(used) ==
  LET availableStyles == SelectSeq(DEBATE_STYLES, LAMBDA style : style \notin Range(used))
  IN  IF Len(availableStyles) = 0
        THEN {[style |-> s, used |-> <<>>] : s \in randomChoice(DEBATE_STYLES)}
      ELSE IF "challenging" \notin Range(used) /\ Len(used) >= 2
        THEN {[style |-> "challenging", used |-> Append(used, "challenging")]}
      ELSE {[style |-> s, used |-> used] : s \in randomChoice(availableStyles)}

\* getDebateStyle: the styles it may return, each with the used-styles array it leaves
getDebateStyle(used) ==
  LET availableStyles == SelectSeq(DEBATE_STYLES, LAMBDA style : style \notin Range(used))
  IN  IF Len(availableStyles) = 0
        THEN {[style |-> s, used |-> <<>>] : s \in randomChoice(DEBATE_STYLES)}
      ELSE IF "challenging" \notin Range(used) /\ Len(used) >= 2
        THEN {[style |-> "challenging", used |-> Append(used, "challenging")]}
      ELSE {[style |-> s, used |-> Append(used, s)] : s \in randomChoice(availableStyles)}

\* expert.aiModel || this.config.model
ModelFor(expert) == IF expert.aiModel # NoModel THEN expert.aiModel ELSE config.model

\* mutant: roster order is kept for the last round of runs of 5 rounds or more only
IsFinalRound_FromFiveRounds(roundNum) ==
  roundNum >= config.totalRounds /\ config.totalRounds >= FinalRoundMinTotal + 1

\* isFinalRound of runRound
IsFinalRound(roundNum) ==
  roundNum >= config.totalRounds /\ config.totalRounds >= FinalRoundMinTotal

\* mutant: the round's order repeats its first expert in every position
ExpertOrders_RepeatsFirst(roundNum) ==
  IF IsFinalRound(roundNum) THEN {config.experts}
  ELSE {[i \in DOMAIN order |-> order[1]] : order \in shuffleArray(config.experts)}

\* the expertOrder runRound may use
ExpertOrders(roundNum) ==
  IF IsFinalRound(roundNum) THEN {config.experts} ELSE shuffleArray(config.experts)

\* parseFloat on the replies of ConsensusResponses, in hundredths
parseFloat(response) ==
  CASE response = "0.85" -> [isNaN |-> FALSE, value |-> 85]
    [] response = "0.9"  -> [isNaN |-> FALSE, value |-> 90]
    [] response = "1.7"  -> [isNaN |-> FALSE, value |-> 170]
    [] response = "-2"   -> [isNaN |-> FALSE, value |-> -200]
    [] OTHER             -> [isNaN |-> TRUE, value |-> 0]

\* mutant: an unparsable reply counts as no consensus (score || 0)
ScoreOfResponse_NaNIsZero(response) ==
  LET score == parseFloat(response)
  IN  IF score.isNaN THEN 0 ELSE Min(100, Max(0, score.value))

\* analyzeConsensus, the try branch: isNaN(score) ? 0.5 : Math.min(1, Math.max(0, score))
ScoreOfResponse(response) ==
  LET score == parseFloat(response)
  IN  IF score.isNaN THEN DefaultConsensus ELSE Min(100, Max(0, score.value))

\* mutant: the short-log test is off by one
ConsensusNeedsClient_OffByOne(messages) == ~(Len(messages) < MinMessagesForConsensus - 1)

\* analyzeConsensus answers without the client below 5 messages
ConsensusNeedsClient(messages) == ~(Len(messages) < MinMessagesForConsensus)

\* for (const expert of expertOrder): there is an expert after position i
HasNextExpert(order, i) == i < Len(order)

\* mutant: the round loop stops one round short
RoundLoopContinues_OffByOne(r) == r < config.totalRounds

\* for (let round = 1; round <= this.config.totalRounds; round++)
RoundLoopContinues(r) == r <= config.totalRounds

\* mutant: the early-consensus test only fires after round 3
IsEarlyConsensus_LateRound(event, r) ==
  /\ event.type = "round_complete"
  /\ event.consensusScore # 0
  /\ event.consensusScore > ConsensusThreshold
  /\ r > EarlyConsensusMinRound

\* the early-consensus test of runDiscussion
IsEarlyConsensus(event, r) ==
  /\ event.type = "round_complete"
  /\ event.consensusScore # 0
  /\ event.consensusScore > ConsensusThreshold
  /\ r >= EarlyConsensusMinRound

\* trimmed length of the sentence a fragment holds
SentenceLength(token) ==
  CASE token = "Ok." -> 2
    [] token = "Cache every page at the edge." -> 28
    [] OTHER -> 0

\* extractKeyPoints: sentences longer than 20 characters, the first 3 of them
extractKeyPoints(content) ==
  LET sentences == SelectSeq(content, LAMBDA s : SentenceLength(s) > 20)
  IN  SubSeq(sentences, 1, Min(3, Len(sentences)))

\* the Message runExpertTurn records (debateStyle, discussionId, createdAt are never read back)
ExpertMessage(expert, roundNum, content) ==
  [id |-> <<"msg", expert.id>>, content |-> content, role |-> "EXPERT", round |-> roundNum,
   expertId |-> expert.id]

ModeratorMessage(content, roundNum) ==
  [id |-> <<"msg_mod">>, content |-> <<content>>, role |-> "MODERATOR", round |-> roundNum,
   expertId |-> 0]

\* ------------------------------------------------------------------ prompts
\* getRecentContext renders the last 4 messages
RecentContextSize == 4
\* getRoundSpecificQuestion looks for moderator input in the last 3 messages
ModeratorWindow == 3

\* no moderator callout in the prompt
NoCallout == <<>>

\* the prompt variable outside a turn
NoPrompt ==
  [expertId |-> 0, recentContext |-> <<>>, moderatorCallout |-> NoCallout,
   focusInstruction |-> "none"]

\* the name of the expert a message came from (experts are named by their id)
Speaker(msg) == IF msg.role = "MODERATOR" THEN "Moderator" ELSE ToString(msg.expertId)

\* getRecentContext: one "speaker: content" line per message of the last 4
getRecentContext(messages) ==
  LET recentMessages == SliceLast(messages, RecentContextSize)
  IN  [i \in 1..Len(recentMessages) |->
         [speaker |-> Speaker(recentMessages[i]), content |-> recentMessages[i].content]]

\* mutant: the callout quotes the first moderator message of the window
ModeratorCallout_First(messages) ==
  LET recentModeratorMsgs ==
        SelectSeq(SliceLast(messages, ModeratorWindow), LAMBDA msg : msg.role = "MODERATOR")
  IN  IF Len(recentModeratorMsgs) > 0 THEN Head(recentModeratorMsgs).content ELSE NoCallout

\* getRoundSpecificQuestion, its moderator part: the content the callout quotes
ModeratorCallout(messages) ==
  LET recentModeratorMsgs ==
        SelectSeq(SliceLast(messages, ModeratorWindow), LAMBDA msg : msg.role = "MODERATOR")
  IN  IF Len(recentModeratorMsgs) > 0 THEN Last(recentModeratorMsgs).content ELSE NoCallout

\* focusInstruction of buildPrompt: the conclusive wording from round totalRounds on
FocusInstruction(roundNum) ==
  IF roundNum >= config.totalRounds THEN "conclusive" ELSE "fresh perspectives"

\* buildPrompt: the parts of the prompt that depend on the message log and the round
buildPrompt(expert, roundNum, messages) ==
  [expertId |-> expert.id, recentContext |-> getRecentContext(messages),
   moderatorCallout |-> ModeratorCallout(messages),
   focusInstruction |-> FocusInstruction(roundNum)]

\* ------------------------------------------------------------ stream calls
\* temperatures of runExpertTurn, in hundredths
FinalTemperature == 60
RegularTemperature == 80

\* temperature of a turn's generateStream call
Temperature(roundNum) ==
  IF roundNum >= config.totalRounds THEN FinalTemperature ELSE RegularTemperature

\* the stream variable outside a generateStream call
NoStream == [model |-> NoModel, temperature |-> 0]

\* mutant: a client is created for every turn
ClientsAfterResolving_NoCache(model) == Append(clientObjects, model)

\* getLLMClientForExpert: the cached client of the model is returned, a new
\* client object is created only for a model without one
ClientsAfterResolving(model) ==
  IF model \in llmClients THEN clientObjects ELSE Append(clientObjects, model)

\* --------------------------------------------------------------------- Init
\* the engine as its constructor leaves it, runDiscussion not yet started
InitialState(experts) ==
  [currentRound |-> 0, messages |-> <<>>,
   expertPositions |-> [e \in 1..Len(experts) |-> <<>>],
   usedStylesThisRound |-> <<>>, isRunning |-> FALSE, consensusScore |-> 0]

EngineConstructed ==
  /\ state = InitialState(config.experts)
  /\ llmClients = {config.model}
  /\ pc = "not_started"
  /\ round = 0
  /\ expertOrder = <<>>
  /\ turnIdx = 0
  /\ debateStyle = "none"
  /\ fullContent = <<>>
  /\ events = <<>>
  /\ roundLog = <<>>
  /\ streamCalls = 0
  /\ consensusCalls = 0
  /\ analysisOutcome = "none"
  /\ prompt = NoPrompt
  /\ stream = NoStream
  /\ clientObjects = <<config.model>>
  /\ rosterAtStart = config.experts

\* an engine driven directly by its caller: no stored discussion behind it
NoDiscussion == [status |-> "NONE", moderatorMode |-> FALSE, currentRound |-> 0, messages |-> <<>>]

\* the stream route's loop body on expert_complete: store the message and the round
StoreExpertMessage(d, message) ==
  IF d.status = "NONE" \/ isAborted THEN d
  ELSE [d EXCEPT !.messages = Append(@, [content |-> message.content, role |-> "EXPERT",
                                            round |-> message.round, expertId |-> message.expertId]),
                 !.currentRound = message.round]

\* the stream route once the event loop has ended without a disconnect
MarkCompleted(d) ==
  IF d.status = "NONE" \/ isAborted THEN d ELSE [d EXCEPT !.status = "COMPLETED"]

\* the stream route's catch: the discussion is paused unless the client is gone
MarkPaused(d) ==
  IF d.status = "NONE" \/ isAborted THEN d ELSE [d EXCEPT !.status = "PAUSED"]

\* the error event the stream route's catch sends
StreamErrorEvent == [type |-> "error"]

\* ------------------------------------------------------- the browser's store
\* streamingExpert: null
NoStreamingExpert == [id |-> 0, debateStyle |-> "none"]

\* the store once the page has loaded a fresh discussion and asked for its stream
LoadedStore(moderatorMode) ==
  [status |-> "IN_PROGRESS", currentRound |-> 0, moderatorMode |-> moderatorMode,
   messages |-> <<>>, streamingContent |-> <<>>, streamingExpert |-> NoStreamingExpert,
   consensusScore |-> 0, error |-> FALSE, showModeratorInput |-> FALSE]

\* completeStream: the streaming expert's message joins the list, tagged with the
\* store's current round; without a streaming expert nothing changes.  Of the
\* message, the id, content, role, round and expert are kept.
completeStream(s, messageId, content) ==
  LET expert == s.streamingExpert
  IN  IF expert = NoStreamingExpert THEN s
      ELSE [s EXCEPT !.messages = Append(@, [id |-> messageId, content |-> content,
                                             role |-> "EXPERT", round |-> s.currentRound,
                                             expertId |-> expert.id]),
                     !.streamingContent = <<>>,
                     !.streamingExpert = NoStreamingExpert]

\* mutant: expert_start leaves the store's round as it is
handleSSEEvent_KeepsRound(s, event) ==
  CASE event.type = "expert_start" ->
         [s EXCEPT !.streamingExpert = [id |-> event.expertId, debateStyle |-> event.debateStyle],
                   !.streamingContent = <<>>,
                   !.status = "IN_PROGRESS",
                   !.showModeratorInput = FALSE]
    [] event.type = "token" ->
         [s EXCEPT !.streamingContent = Append(@, event.content)]
    [] event.type = "expert_complete" ->
         completeStream(s, event.messageId, event.fullContent)
    [] event.type = "round_complete" ->
         [s EXCEPT !.currentRound = event.round, !.consensusScore = event.consensusScore]
    [] event.type = "moderator_prompt" ->
         IF s.moderatorMode THEN [s EXCEPT !.showModeratorInput = TRUE] ELSE s
    [] event.type = "discussion_complete" ->
         [s EXCEPT !.status = "COMPLETED"]
    [] event.type = "error" ->
         [s EXCEPT !.error = TRUE, !.status = "PAUSED"]
    [] OTHER -> s

\* handleSSEEvent: the store after one event
handleSSEEvent(s, event) ==
  CASE event.type = "expert_start" ->
         [s EXCEPT !.streamingExpert = [id |-> event.expertId, debateStyle |-> event.debateStyle],
                   !.streamingContent = <<>>,
                   !.currentRound = event.round,
                   !.status = "IN_PROGRESS",
                   !.showModeratorInput = FALSE]
    [] event.type = "token" ->
         [s EXCEPT !.streamingContent = Append(@, event.content)]
    [] event.type = "expert_complete" ->
         completeStream(s, event.messageId, event.fullContent)
    [] event.type = "round_complete" ->
         [s EXCEPT !.currentRound = event.round, !.consensusScore = event.consensusScore]
    [] event.type = "moderator_prompt" ->
         IF s.moderatorMode THEN [s EXCEPT !.showModeratorInput = TRUE] ELSE s
    [] event.type = "discussion_complete" ->
         [s EXCEPT !.status = "COMPLETED"]
    [] event.type = "error" ->
         [s EXCEPT !.error = TRUE, !.status = "PAUSED"]
    [] OTHER -> s

\* the page's read loop: the events of the stream are handled in arrival order
RECURSIVE HandleInOrder(_, _)
HandleInOrder(s, evs) ==
  IF evs = <<>> THEN s ELSE HandleInOrder(handleSSEEvent(s, Head(evs)), Tail(evs))

\* ---------------------------------------------------- the consumer of the run
\* sendEvent of the stream route: nothing is enqueued once the client is gone
sendEvent(evs) == IF isAborted THEN <<>> ELSE evs

\* the events the engine yields in a step
NewEvents ==
  IF Len(events') >= Len(events) /\ SubSeq(events', 1, Len(events)) = events
    THEN SubSeq(events', Len(events) + 1, Len(events'))
    ELSE events'

\* what reaches the consumer in a step: the engine's events, or the error event
\* of the route's catch when the generator throws
Arrived ==
  IF pc' = "thrown" /\ pc # "thrown" /\ discussion.status # "NONE"
    THEN <<StreamErrorEvent>> ELSE NewEvents

\* the consumer's part of a step: the events are passed on and handled in order
Delivery ==
  /\ sent' = sent + Len(sendEvent(Arrived))
  /\ clientStore' = HandleInOrder(clientStore, sendEvent(Arrived))
  /\ eventsAfterAbort' = (IF isAborted THEN eventsAfterAbort + Len(NewEvents) ELSE eventsAfterAbort)
  /\ UNCHANGED <<isAborted, llm, rateLimiter, checkLog>>

\* a consumer reading the run's events, its client connected
ConsumerAttached ==
  /\ isAborted = FALSE
  /\ sent = 0
  /\ eventsAfterAbort = 0
  /\ clientStore = LoadedStore(config.moderatorMode)

\* ------------------------------------------------ components outside the run
\* config.maxRetries || 3
DefaultMaxRetries == 3

\* the maxRetries values a client may be configured with, and none at all
ConfiguredRetries ==
  {[set |-> FALSE, value |-> 0]} \cup {[set |-> TRUE, value |-> v] : v \in 0..MaxConfiguredRetries}

\* the maxRetries field the constructor computes
EffectiveMaxRetries(configured) ==
  IF configured.set /\ configured.value # 0 THEN configured.value ELSE DefaultMaxRetries

\* new LLMClient(config): no call made yet
NewLLMClient(configured) ==
  [configured |-> configured, maxRetries |-> EffectiveMaxRetries(configured), call |-> "none",
   attempts |-> 0, chunks |-> 0, outcome |-> "none", calls |-> 0]

\* the client of a run, constructed without maxRetries, its calls not followed
IdleClient == NewLLMClient([set |-> FALSE, value |-> 0])

\* the identifiers checkRateLimit is called with
LimitTypes == {"startStream", "createDiscussion"}
ClientIds == {"a", "b"}
RateLimitKeys == LimitTypes \X ClientIds

\* an absent entry of the limiter's map
NoEntry == [count |-> 0, resetTime |-> -1]

\* the RateLimiter as constructed, at time 0
NewRateLimiter == [store |-> [k \in RateLimitKeys |-> NoEntry], now |-> 0]

\* ------------------------------------------------------------- rate limiter
\* RATE_LIMITS: one window length, and the requests allowed per window
WindowMs == 60000
StartStreamMax == 5
CreateDiscussionMax == 10

RATE_LIMITS(limitType) ==
  IF limitType = "startStream"
    THEN [windowMs |-> WindowMs, maxRequests |-> StartStreamMax]
    ELSE [windowMs |-> WindowMs, maxRequests |-> CreateDiscussionMax]

\* mutant: the request that finds the counter at the limit is still let through
check_OffByOne(rl, key, cfg) ==
  LET entry == rl.store[key]
      now == rl.now
  IN  IF entry = NoEntry \/ entry.resetTime < now
        THEN [store |-> [rl.store EXCEPT ![key] = [count |-> 1, resetTime |-> now + cfg.windowMs]],
              allowed |-> TRUE, remaining |-> cfg.maxRequests - 1, resetIn |-> cfg.windowMs]
      ELSE IF entry.count > cfg.maxRequests
        THEN [store |-> rl.store, allowed |-> FALSE, remaining |-> 0,
              resetIn |-> entry.resetTime - now]
      ELSE [store |-> [rl.store EXCEPT ![key].count = @ + 1],
            allowed |-> TRUE, remaining |-> cfg.maxRequests - (entry.count + 1),
            resetIn |-> entry.resetTime - now]

\* RateLimiter.check: the map it leaves and the result it returns
check(rl, key, cfg) ==
  LET entry == rl.store[key]
      now == rl.now
  IN  IF entry = NoEntry \/ entry.resetTime < now
        THEN [store |-> [rl.store EXCEPT ![key] = [count |-> 1, resetTime |-> now + cfg.windowMs]],
              allowed |-> TRUE, remaining |-> cfg.maxRequests - 1, resetIn |-> cfg.windowMs]
      ELSE IF entry.count >= cfg.maxRequests
        THEN [store |-> rl.store, allowed |-> FALSE, remaining |-> 0,
              resetIn |-> entry.resetTime - now]
      ELSE [store |-> [rl.store EXCEPT ![key].count = @ + 1],
            allowed |-> TRUE, remaining |-> cfg.maxRequests - (entry.count + 1),
            resetIn |-> entry.resetTime - now]

\* checkRateLimit(identifier, limitType): check under the key of the pair
checkRateLimit(rl, identifier, limitType) ==
  check(rl, <<limitType, identifier>>, RATE_LIMITS(limitType))

\* a call of checkRateLimit as the log records it
Checked(rl, identifier, limitType) ==
  LET result == checkRateLimit(rl, identifier, limitType)
  IN  [key |-> <<limitType, identifier>>, at |-> rl.now, allowed |-> result.allowed,
       remaining |-> result.remaining, resetIn |-> result.resetIn,
       countBefore |-> rl.store[<<limitType, identifier>>].count,
       countAfter |-> result.store[<<limitType, identifier>>].count]

\* no call of checkRateLimit yet
NoChecks ==
  [calls |-> 0,
   last |-> [key |-> <<"none", "none">>, at |-> 0, allowed |-> FALSE, remaining |-> 0,
             resetIn |-> 0, countBefore |-> 0, countAfter |-> 0],
   windows |-> [k \in RateLimitKeys |-> [resetTime |-> -1, allowed |-> 0]]]

\* the log after a call: the number of calls, the call and its result, and for
\* each key the reset time last reported to an allowed call, with the number
\* of allowed calls that were given that reset time
Logged(log, rl, identifier, limitType) ==
  LET call == Checked(rl, identifier, limitType)
      window == log.windows[call.key]
      resetTime == call.at + call.resetIn
  IN  [calls |-> log.calls + 1,
       last |-> call,
       windows |-> IF ~call.allowed THEN log.windows
                   ELSE IF window.resetTime = resetTime
                     THEN [log.windows EXCEPT ![call.key].allowed = @ + 1]
                   ELSE [log.windows EXCEPT ![call.key] = [resetTime |-> resetTime, allowed |-> 1]]]

ComponentsIdle ==
  /\ llm = IdleClient
  /\ rateLimiter = NewRateLimiter
  /\ checkLog = NoChecks

Init ==
  /\ config \in Configs
  \* a missing key only shows when a client has to be created
  /\ envApiKey \in (IF HasOverride(config.experts) THEN BOOLEAN ELSE {TRUE})
  /\ EngineConstructed
  /\ ConsumerAttached
  /\ ComponentsIdle
  /\ discussion = NoDiscussion
  /\ budget = (IF Turns(config) <= ShortRun THEN FullBudget ELSE NoBudget)

\* ------------------------------------------------- stretches of generator code
\* runExpertTurn up to its first yield: pick the style, yield expert_start
BeginTurn(st, order, i, evs) ==
  \E pick \in getDebateStyle(st.usedStylesThisRound) :
    /\ state' = [st EXCEPT !.usedStylesThisRound = pick.used]
    /\ expertOrder' = order
    /\ turnIdx' = i
    /\ debateStyle' = pick.style
    /\ events' = Append(evs, ExpertStartEvent(order[i], st.currentRound, pick.style))
    /\ streamCalls' = 0
    /\ pc' = "expert_start"

\* runRound up to its first yield
BeginRound(st, r) ==
  LET st1 == [st EXCEPT !.currentRound = r, !.usedStylesThisRound = <<>>]
  IN  /\ round' = r
      /\ analysisOutcome' = "none"
      /\ \E order \in ExpertOrders(r) : BeginTurn(st1, order, 1, <<>>)

\* mutant: the score is yielded but not stored
FinishRound_ScoreNotStored(score) ==
  /\ state' = state
  /\ events' = Append(events, RoundCompleteEvent(state.currentRound, score))
  /\ roundLog' = Append(roundLog, RoundCompleteEvent(state.currentRound, score))
  /\ pc' = "round_complete"

\* the tail of runRound once the consensus score is known: store it, yield round_complete
FinishRound(score) ==
  /\ state' = [state EXCEPT !.consensusScore = score]
  /\ events' = Append(events, RoundCompleteEvent(state.currentRound, score))
  /\ roundLog' = Append(roundLog, RoundCompleteEvent(state.currentRound, score))
  /\ pc' = "round_complete"

\* runRound after a turn (and its moderator prompt): next expert, or consensus analysis
ContinueRound ==
  IF HasNextExpert(expertOrder, turnIdx)
    THEN /\ BeginTurn(state, expertOrder, turnIdx + 1, events)
         /\ UNCHANGED <<roundLog, consensusCalls>>
  ELSE IF ConsensusNeedsClient(state.messages)
    THEN /\ pc' = "analyzing"
         /\ consensusCalls' = consensusCalls + 1
         /\ UNCHANGED <<state, expertOrder, turnIdx, debateStyle, events, roundLog, streamCalls>>
  ELSE /\ FinishRound(0)
       /\ UNCHANGED <<expertOrder, turnIdx, debateStyle, streamCalls, consensusCalls>>

\* ------------------------------------------------------------------- actions
\* first next() on runDiscussion
StartRun ==
  /\ pc = "not_started"
  /\ IF RoundLoopContinues(1)
       THEN BeginRound([state EXCEPT !.isRunning = TRUE], 1)
       ELSE /\ state' = [state EXCEPT !.isRunning = TRUE]
            /\ events' = Append(events, DiscussionCompleteEvent)
            /\ pc' = "discussion_complete"
            /\ UNCHANGED <<round, expertOrder, turnIdx, debateStyle, streamCalls, analysisOutcome>>
  /\ UNCHANGED <<config, envApiKey, llmClients, fullContent, roundLog, consensusCalls, budget>>
  /\ UNCHANGED <<prompt, discussion, rosterAtStart>>
  /\ UNCHANGED <<stream, clientObjects>>
  /\ Delivery

\* runExpertTurn after expert_start: build the prompt, resolve the client, open the stream
OpenStream ==
  /\ pc = "expert_start"
  /\ LET model == ModelFor(expertOrder[turnIdx])
     IN  IF model \in llmClients \/ envApiKey
           THEN /\ llmClients' = llmClients \cup {model}
                /\ clientObjects' = ClientsAfterResolving(model)
                /\ stream' = [model |-> model, temperature |-> Temperature(state.currentRound)]
                /\ streamCalls' = streamCalls + 1
                /\ pc' = "streaming"
                /\ UNCHANGED state
           \* new LLMClient throws; the finally of runDiscussion runs
           ELSE /\ pc' = "thrown"
                /\ state' = [state EXCEPT !.isRunning = FALSE]
                /\ UNCHANGED <<llmClients, clientObjects, stream, streamCalls>>
  /\ fullContent' = <<>>
  /\ prompt' = buildPrompt(expertOrder[turnIdx], state.currentRound, state.messages)
  /\ discussion' = (IF pc' = "thrown" THEN MarkPaused(discussion) ELSE discussion)
  /\ UNCHANGED <<config, envApiKey, round, expertOrder, turnIdx, debateStyle, events, roundLog,
                 consensusCalls, analysisOutcome, rosterAtStart, budget>>
  /\ Delivery

\* mutant: the fragment is put in front of the accumulated content
StreamToken_Prepends ==
  /\ pc = "streaming"
  /\ budget.tokens > 0
  /\ \E token \in Tokens :
       /\ fullContent' = <<token>> \o fullContent
       /\ events' = Append(events, TokenEvent(token))
  /\ budget' = [budget EXCEPT !.tokens = @ - 1]
  /\ UNCHANGED <<config, envApiKey, state, llmClients, pc, round, expertOrder, turnIdx,
                 debateStyle, roundLog, streamCalls, consensusCalls,
                 analysisOutcome>>
  /\ UNCHANGED <<prompt, discussion, rosterAtStart>>
  /\ UNCHANGED <<stream, clientObjects>>
  /\ Delivery

\* the stream delivers a fragment: accumulate it, yield a token event
StreamToken ==
  /\ pc = "streaming"
  /\ budget.tokens > 0
  /\ \E token \in Tokens :
       /\ fullContent' = Append(fullContent, token)
       /\ events' = Append(events, TokenEvent(token))
  /\ budget' = [budget EXCEPT !.tokens = @ - 1]
  /\ UNCHANGED <<config, envApiKey, state, llmClients, pc, round, expertOrder, turnIdx,
                 debateStyle, roundLog, streamCalls, consensusCalls,
                 analysisOutcome>>
  /\ UNCHANGED <<prompt, discussion, rosterAtStart>>
  /\ UNCHANGED <<stream, clientObjects>>
  /\ Delivery

\* the stream ends: track key points, record the message, yield expert_complete
StreamEnd ==
  /\ pc = "streaming"
  /\ LET expert == expertOrder[turnIdx]
         keyPoints == extractKeyPoints(fullContent)
         message == ExpertMessage(expert, state.currentRound, fullContent)
     IN  /\ state' = [state EXCEPT !.expertPositions[expert.id] = @ \o keyPoints,
                                   !.messages = Append(@, message)]
         /\ events' = Append(events, ExpertCompleteEvent(message))
  /\ pc' = "expert_complete"
  /\ fullContent' = <<>>
  /\ UNCHANGED <<config, envApiKey, llmClients, round, expertOrder, turnIdx, debateStyle,
                 roundLog, streamCalls, consensusCalls, analysisOutcome, budget>>
  /\ prompt' = NoPrompt
  /\ discussion' = StoreExpertMessage(discussion, ExpertMessage(expertOrder[turnIdx], state.currentRound, fullContent))
  /\ UNCHANGED rosterAtStart
  /\ stream' = NoStream
  /\ UNCHANGED clientObjects
  /\ Delivery

\* mutant: the catch yields the error event and rethrows
StreamFail_Rethrows ==
  /\ pc = "streaming"
  /\ budget.failures > 0
  /\ events' = Append(events, ErrorEvent(expertOrder[turnIdx]))
  /\ pc' = "thrown"
  /\ state' = [state EXCEPT !.isRunning = FALSE]
  /\ fullContent' = <<>>
  /\ budget' = [budget EXCEPT !.failures = @ - 1]
  /\ UNCHANGED <<config, envApiKey, llmClients, round, expertOrder, turnIdx, debateStyle,
                 roundLog, streamCalls, consensusCalls, analysisOutcome>>
  /\ prompt' = NoPrompt
  /\ UNCHANGED <<discussion, rosterAtStart>>
  /\ stream' = NoStream
  /\ UNCHANGED clientObjects
  /\ Delivery

\* mutant: the catch does not end the turn, expert_complete is yielded all the same
StreamFail_FallsThrough ==
  /\ pc = "streaming"
  /\ budget.failures > 0
  /\ LET expert == expertOrder[turnIdx]
         message == ExpertMessage(expert, state.currentRound, fullContent)
     IN  /\ state' = [state EXCEPT !.messages = Append(@, message)]
         /\ events' = events \o <<ErrorEvent(expert), ExpertCompleteEvent(message)>>
  /\ pc' = "expert_complete"
  /\ fullContent' = <<>>
  /\ budget' = [budget EXCEPT !.failures = @ - 1]
  /\ UNCHANGED <<config, envApiKey, llmClients, round, expertOrder, turnIdx, debateStyle,
                 roundLog, streamCalls, consensusCalls, analysisOutcome>>
  /\ prompt' = NoPrompt
  /\ UNCHANGED <<discussion, rosterAtStart>>
  /\ stream' = NoStream
  /\ UNCHANGED clientObjects
  /\ Delivery

\* mutant: the catch tracks the key points of the partial content before the error event
StreamFail_KeepsPartial ==
  /\ pc = "streaming"
  /\ budget.failures > 0
  /\ state' = [state EXCEPT !.expertPositions[expertOrder[turnIdx].id] =
                               @ \o extractKeyPoints(fullContent)]
  /\ events' = Append(events, ErrorEvent(expertOrder[turnIdx]))
  /\ pc' = "error"
  /\ fullContent' = <<>>
  /\ budget' = [budget EXCEPT !.failures = @ - 1]
  /\ UNCHANGED <<config, envApiKey, llmClients, round, expertOrder, turnIdx, debateStyle,
                 roundLog, streamCalls, consensusCalls, analysisOutcome>>
  /\ prompt' = NoPrompt
  /\ UNCHANGED <<discussion, rosterAtStart>>
  /\ stream' = NoStream
  /\ UNCHANGED clientObjects
  /\ Delivery

\* the stream raises (before or after fragments): the catch yields an error event
StreamFail ==
  /\ pc = "streaming"
  /\ budget.failures > 0
  /\ events' = Append(events, ErrorEvent(expertOrder[turnIdx]))
  /\ pc' = "error"
  /\ fullContent' = <<>>
  /\ budget' = [budget EXCEPT !.failures = @ - 1]
  /\ UNCHANGED <<config, envApiKey, state, llmClients, round, expertOrder, turnIdx, debateStyle,
                 roundLog, streamCalls, consensusCalls,
                 analysisOutcome>>
  /\ prompt' = NoPrompt
  /\ UNCHANGED <<discussion, rosterAtStart>>
  /\ stream' = NoStream
  /\ UNCHANGED clientObjects
  /\ Delivery

\* mutant: the moderator is prompted after the last turn of the round only
AfterTurn_PromptAfterLastOnly ==
  /\ pc \in {"expert_complete", "error"}
  /\ IF config.moderatorMode /\ ~HasNextExpert(expertOrder, turnIdx)
       THEN /\ events' = Append(events, ModeratorPromptEvent(expertOrder[turnIdx]))
            /\ pc' = "moderator_prompt"
            /\ UNCHANGED <<state, expertOrder, turnIdx, debateStyle, roundLog, streamCalls,
                           consensusCalls>>
       ELSE ContinueRound
  /\ UNCHANGED <<config, envApiKey, llmClients, round, fullContent, analysisOutcome, budget>>
  /\ UNCHANGED <<prompt, discussion, rosterAtStart>>
  /\ UNCHANGED <<stream, clientObjects>>
  /\ Delivery

\* runRound resumed after a turn's last event
AfterTurn ==
  /\ pc \in {"expert_complete", "error"}
  /\ IF config.moderatorMode
       THEN /\ events' = Append(events, ModeratorPromptEvent(expertOrder[turnIdx]))
            /\ pc' = "moderator_prompt"
            /\ UNCHANGED <<state, expertOrder, turnIdx, debateStyle, roundLog, streamCalls,
                           consensusCalls>>
       ELSE ContinueRound
  /\ UNCHANGED <<config, envApiKey, llmClients, round, fullContent, analysisOutcome, budget>>
  /\ UNCHANGED <<prompt, discussion, rosterAtStart>>
  /\ UNCHANGED <<stream, clientObjects>>
  /\ Delivery

\* runRound resumed after moderator_prompt
AfterModeratorPrompt ==
  /\ pc = "moderator_prompt"
  /\ ContinueRound
  /\ UNCHANGED <<config, envApiKey, llmClients, round, fullContent, analysisOutcome, budget>>
  /\ UNCHANGED <<prompt, discussion, rosterAtStart>>
  /\ UNCHANGED <<stream, clientObjects>>
  /\ Delivery

\* generateResponse of analyzeConsensus returns a reply
ConsensusReply ==
  /\ pc = "analyzing"
  /\ \E response \in ConsensusResponses :
       /\ FinishRound(ScoreOfResponse(response))
       /\ analysisOutcome' = response
  /\ UNCHANGED <<config, envApiKey, llmClients, round, expertOrder, turnIdx, debateStyle,
                 fullContent, streamCalls, consensusCalls, budget>>
  /\ UNCHANGED <<prompt, discussion, rosterAtStart>>
  /\ UNCHANGED <<stream, clientObjects>>
  /\ Delivery

\* generateResponse of analyzeConsensus raises: the catch returns 0.5
ConsensusError ==
  /\ pc = "analyzing"
  /\ FinishRound(DefaultConsensus)
  /\ analysisOutcome' = "error"
  /\ UNCHANGED <<config, envApiKey, llmClients, round, expertOrder, turnIdx, debateStyle,
                 fullContent, streamCalls, consensusCalls, budget>>
  /\ UNCHANGED <<prompt, discussion, rosterAtStart>>
  /\ UNCHANGED <<stream, clientObjects>>
  /\ Delivery

\* runDiscussion resumed after round_complete: early consensus, next round, or the end
AfterRoundComplete ==
  /\ pc = "round_complete"
  /\ IF IsEarlyConsensus(Last(events), round) \/ ~RoundLoopContinues(round + 1)
       THEN /\ events' = Append(events, DiscussionCompleteEvent)
            /\ pc' = "discussion_complete"
            /\ UNCHANGED <<state, round, expertOrder, turnIdx, debateStyle, streamCalls,
                           analysisOutcome>>
       ELSE BeginRound(state, round + 1)
  /\ UNCHANGED <<config, envApiKey, llmClients, fullContent, roundLog, consensusCalls, budget>>
  /\ UNCHANGED <<prompt, discussion, rosterAtStart>>
  /\ UNCHANGED <<stream, clientObjects>>
  /\ Delivery

\* runDiscussion resumed after discussion_complete: return through the finally
Finish ==
  /\ pc = "discussion_complete"
  /\ state' = [state EXCEPT !.isRunning = FALSE]
  /\ pc' = "done"
  /\ UNCHANGED <<config, envApiKey, llmClients, round, expertOrder, turnIdx, debateStyle,
                 fullContent, events, roundLog, streamCalls, consensusCalls, analysisOutcome, budget>>
  /\ discussion' = MarkCompleted(discussion)
  /\ UNCHANGED <<prompt, rosterAtStart>>
  /\ UNCHANGED <<stream, clientObjects>>
  /\ Delivery

\* mutant: the moderator message is put at the head of the log
addModeratorMessage_Prepends ==
  /\ budget.moderator > 0
  /\ \E content \in ModeratorContents :
       state' = [state EXCEPT !.messages = <<ModeratorMessage(content, state.currentRound)>> \o @]
  /\ budget' = [budget EXCEPT !.moderator = @ - 1]
  /\ UNCHANGED <<config, envApiKey, llmClients, pc, round, expertOrder, turnIdx, debateStyle,
                 fullContent, events, roundLog, streamCalls, consensusCalls,
                 analysisOutcome>>
  /\ UNCHANGED <<prompt, discussion, rosterAtStart>>
  /\ UNCHANGED <<stream, clientObjects>>
  /\ Delivery

\* mutant: the message is tagged with the round after the current one
addModeratorMessage_NextRound ==
  /\ budget.moderator > 0
  /\ \E content \in ModeratorContents :
       state' = [state EXCEPT !.messages = Append(@, ModeratorMessage(content, state.currentRound + 1))]
  /\ budget' = [budget EXCEPT !.moderator = @ - 1]
  /\ UNCHANGED <<config, envApiKey, llmClients, pc, round, expertOrder, turnIdx, debateStyle,
                 fullContent, events, roundLog, streamCalls, consensusCalls,
                 analysisOutcome>>
  /\ UNCHANGED <<prompt, discussion, rosterAtStart>>
  /\ UNCHANGED <<stream, clientObjects>>
  /\ Delivery

\* addModeratorMessage, callable whenever the generator is parked
addModeratorMessage ==
  /\ budget.moderator > 0
  /\ \E content \in ModeratorContents :
       state' = [state EXCEPT !.messages = Append(@, ModeratorMessage(content, state.currentRound))]
  /\ budget' = [budget EXCEPT !.moderator = @ - 1]
  /\ UNCHANGED <<config, envApiKey, llmClients, pc, round, expertOrder, turnIdx, debateStyle,
                 fullContent, events, roundLog, streamCalls, consensusCalls,
                 analysisOutcome>>
  /\ UNCHANGED <<prompt, discussion, rosterAtStart>>
  /\ UNCHANGED <<stream, clientObjects>>
  /\ Delivery

Next ==
  \/ StartRun
  \/ OpenStream
  \/ StreamToken
  \/ StreamEnd
  \/ StreamFail
  \/ AfterTurn
  \/ AfterModeratorPrompt
  \/ ConsensusReply
  \/ ConsensusError
  \/ AfterRoundComplete
  \/ Finish
  \/ addModeratorMessage

\* the steps of the generator itself: its consumer resuming it, or a completion call ending
EngineStep ==
  \/ StartRun
  \/ OpenStream
  \/ StreamToken
  \/ StreamEnd
  \/ StreamFail
  \/ AfterTurn
  \/ AfterModeratorPrompt
  \/ ConsensusReply
  \/ ConsensusError
  \/ AfterRoundComplete
  \/ Finish

Spec == Init /\ [][Next]_vars

\* ------------------------------------------------------ moderator interjections
\* Short runs in which the caller appends up to MaxInterjections moderator messages.
InterjectionInit ==
  /\ config \in {c \in Configs : ~HasOverride(c.experts) /\ Turns(c) <= 3}
  /\ envApiKey = TRUE
  /\ EngineConstructed
  /\ ConsumerAttached
  /\ ComponentsIdle
  /\ discussion = NoDiscussion
  /\ budget = [failures |-> MaxFailures, tokens |-> MaxTokens, moderator |-> MaxInterjections,
               edits |-> 0]

InterjectionSpec == InterjectionInit /\ [][Next]_vars

\* ------------------------------------------------------- one round, streamed
\* Runs of one round whose streams deliver up to MaxFragments fragments in
\* all.  One round of at most MaxExperts turns leaves fewer than 5 messages,
\* so the analysis never calls the client; the caller appends nothing.
TurnInit ==
  /\ config \in {c \in Configs : c.totalRounds = 1 /\ ~HasOverride(c.experts)}
  /\ envApiKey = TRUE
  /\ EngineConstructed
  /\ ConsumerAttached
  /\ ComponentsIdle
  /\ discussion = NoDiscussion
  /\ budget = [failures |-> MaxFailures, tokens |-> MaxFragments, moderator |-> 0, edits |-> 0]

TurnNext ==
  \/ StartRun
  \/ OpenStream
  \/ StreamToken
  \/ StreamEnd
  \/ StreamFail
  \/ AfterTurn
  \/ AfterModeratorPrompt
  \/ AfterRoundComplete
  \/ Finish

TurnSpec == TurnInit /\ [][TurnNext]_vars

\* --------------------------------------------------------------- served runs
\* A run driven by the stream route (GET .../stream): the route has checked
\* the API key, constructed the engine on the stored panel's experts and set
\* the stored discussion IN_PROGRESS; it then consumes runDiscussion, storing
\* the expert messages.  Meanwhile the moderate route and updateExpert act on
\* the stores.  The route never calls addModeratorMessage.
ServiceBudget ==
  [failures |-> MaxFailures, tokens |-> MaxTokens, moderator |-> MaxModeratorMsgs,
   edits |-> MaxEdits]

ServiceInit ==
  /\ config \in {c \in Configs : ~HasOverride(c.experts)}
  /\ envApiKey = TRUE
  /\ EngineConstructed
  /\ ConsumerAttached
  /\ ComponentsIdle
  /\ discussion = [status |-> "IN_PROGRESS", moderatorMode |-> config.moderatorMode,
                   currentRound |-> 0, messages |-> <<>>]
  /\ budget = (IF Turns(config) <= 2 THEN ServiceBudget ELSE NoBudget)

\* POST .../moderate: a valid comment is stored when the discussion has moderator mode
moderatePOST ==
  /\ budget.moderator > 0
  /\ discussion.status # "NONE"
  /\ discussion.moderatorMode
  /\ \E content \in ModeratorContents :
       discussion' = [discussion EXCEPT !.messages =
                        Append(@, [content |-> <<content>>, role |-> "MODERATOR",
                                   round |-> discussion.currentRound, expertId |-> 0])]
  /\ budget' = [budget EXCEPT !.moderator = @ - 1]
  /\ UNCHANGED <<config, envApiKey, state, llmClients, pc, round, expertOrder, turnIdx,
                 debateStyle, fullContent, events, roundLog, streamCalls, consensusCalls,
                 analysisOutcome, prompt, rosterAtStart>>
  /\ UNCHANGED <<stream, clientObjects>>
  /\ Delivery

\* the expert object with the given id, its aiModel field assigned
EditedExpert(expert, id, model) ==
  IF expert.id = id THEN [expert EXCEPT !.aiModel = model] ELSE expert

\* updateExpert of the panel repository, for data.aiModel: the stored expert
\* object is assigned in place.  The engine's config.experts is the stored
\* array and expertOrder holds the same objects, so both show the edit.
updateExpert ==
  /\ budget.edits > 0
  /\ discussion.status # "NONE"
  /\ \E id \in 1..Len(config.experts), model \in OverrideModels :
       /\ config' = [config EXCEPT !.experts =
                       [i \in 1..Len(config.experts) |-> EditedExpert(config.experts[i], id, model)]]
       /\ expertOrder' =
            [i \in 1..Len(expertOrder) |-> EditedExpert(expertOrder[i], id, model)]
  /\ budget' = [budget EXCEPT !.edits = @ - 1]
  /\ UNCHANGED <<envApiKey, state, llmClients, pc, round, turnIdx, debateStyle, fullContent,
                 events, roundLog, streamCalls, consensusCalls, analysisOutcome, prompt,
                 discussion, rosterAtStart>>
  /\ UNCHANGED <<stream, clientObjects>>
  /\ Delivery

ServiceNext ==
  \/ EngineStep
  \/ moderatePOST
  \/ updateExpert

ServiceSpec == ServiceInit /\ [][ServiceNext]_vars

\* ------------------------------------------------- style selection on its own
\* One round of up to MaxStyleTurns turns, to exercise getDebateStyle past the
\* point where all 5 styles are used.  The style of a turn depends on nothing
\* but usedStylesThisRound, so the experts speak in roster order, there is no
\* moderator prompt, and the streams deliver no fragment: each either ends or
\* fails.
StyleRoster(n) == [i \in 1..n |-> [id |-> i, aiModel |-> NoModel]]

StyleInit ==
  /\ config \in {[totalRounds |-> 1, experts |-> StyleRoster(n), moderatorMode |-> FALSE,
                  model |-> DefaultModel] : n \in 1..MaxStyleTurns}
  /\ envApiKey = TRUE
  /\ EngineConstructed
  /\ ConsumerAttached
  /\ ComponentsIdle
  /\ discussion = NoDiscussion
  /\ budget = [failures |-> MaxStyleTurns, tokens |-> 0, moderator |-> 0, edits |-> 0]

\* next() on runDiscussion, or runRound resumed after a turn: the next turn up to expert_start
StyleTurn ==
  /\ pc \in {"not_started", "expert_complete", "error"}
  /\ turnIdx < Len(config.experts)
  /\ IF pc = "not_started"
       THEN /\ BeginTurn([state EXCEPT !.isRunning = TRUE, !.currentRound = 1,
                                       !.usedStylesThisRound = <<>>],
                         config.experts, 1, <<>>)
            /\ round' = 1
       ELSE /\ BeginTurn(state, expertOrder, turnIdx + 1, events)
            /\ UNCHANGED round
  /\ UNCHANGED <<config, envApiKey, llmClients, fullContent, roundLog, consensusCalls,
                 analysisOutcome, prompt, discussion, rosterAtStart, budget>>
  /\ UNCHANGED <<stream, clientObjects>>
  /\ Delivery

StyleNext ==
  \/ StyleTurn
  \/ OpenStream
  \/ StreamEnd
  \/ StreamFail

StyleSpec == StyleInit /\ [][StyleNext]_vars

\* ------------------------------------------------------------ the stream route
\* The route serves one stored discussion.  A GET that passes the rate limit
\* and the key check constructs an engine, marks the discussion IN_PROGRESS
\* and reads the run's events until the run ends or its client disconnects.
\* One engine is modelled: a further GET is taken once the stream before it is over.
NoStreamOpen == pc \in {"done", "thrown", "returned"}

\* the state the first GET leaves when it starts reading events
RouteInit ==
  /\ config \in {c \in Configs : ~HasOverride(c.experts) /\ Turns(c) <= 2}
  /\ envApiKey = TRUE
  /\ EngineConstructed
  /\ ConsumerAttached
  /\ discussion = [status |-> "IN_PROGRESS", moderatorMode |-> config.moderatorMode,
                   currentRound |-> 0, messages |-> <<>>]
  /\ llm = IdleClient
  /\ \E id \in ClientIds :
       /\ rateLimiter = [NewRateLimiter EXCEPT
                           !.store = checkRateLimit(NewRateLimiter, id, "startStream").store]
       /\ checkLog = Logged(NoChecks, NewRateLimiter, id, "startStream")
  /\ budget = [failures |-> MaxFailures, tokens |-> MaxTokens, moderator |-> 0, edits |-> 0]

\* GET .../stream: rate limit, key check, then a new engine on the stored discussion
streamGET ==
  /\ NoStreamOpen
  /\ checkLog.calls < MaxRequests
  /\ \E id \in ClientIds :
       LET result == checkRateLimit(rateLimiter, id, "startStream")
       IN  /\ rateLimiter' = [rateLimiter EXCEPT !.store = result.store]
           /\ checkLog' = Logged(checkLog, rateLimiter, id, "startStream")
           /\ IF result.allowed /\ envApiKey
                 THEN /\ state' = InitialState(config.experts)
                      /\ llmClients' = {config.model}
                      /\ clientObjects' = <<config.model>>
                      /\ rosterAtStart' = config.experts
                      /\ pc' = "not_started"
                      /\ round' = 0
                      /\ expertOrder' = <<>>
                      /\ turnIdx' = 0
                      /\ debateStyle' = "none"
                      /\ events' = <<>>
                      /\ roundLog' = <<>>
                      /\ streamCalls' = 0
                      /\ consensusCalls' = 0
                      /\ analysisOutcome' = "none"
                      /\ discussion' = [discussion EXCEPT !.status = "IN_PROGRESS"]
                      /\ isAborted' = FALSE
                      /\ sent' = 0
                      /\ eventsAfterAbort' = 0
                      /\ clientStore' = [clientStore EXCEPT !.status = "IN_PROGRESS"]
                 ELSE UNCHANGED <<state, llmClients, clientObjects, rosterAtStart, pc, round,
                                  expertOrder, turnIdx, debateStyle, events, roundLog,
                                  streamCalls, consensusCalls, analysisOutcome, discussion,
                                  isAborted, sent, eventsAfterAbort, clientStore>>
  /\ UNCHANGED <<config, envApiKey, fullContent, prompt, stream, llm, budget>>

\* cleanup, on the request's abort signal, and cancel, on the stream's
\* cancellation: the client is gone and a discussion IN_PROGRESS is paused
cleanup ==
  /\ ~NoStreamOpen
  /\ ~isAborted
  /\ isAborted' = TRUE
  /\ discussion' = (IF discussion.status = "IN_PROGRESS"
                      THEN [discussion EXCEPT !.status = "PAUSED"] ELSE discussion)
  /\ UNCHANGED <<config, envApiKey, state, llmClients, pc, round, expertOrder, turnIdx,
                 debateStyle, fullContent, events, roundLog, streamCalls, consensusCalls,
                 analysisOutcome, prompt, stream, clientObjects, rosterAtStart, sent,
                 eventsAfterAbort, clientStore, llm, rateLimiter, checkLog, budget>>

\* mutant: the generator is returned without its finally
ReturnGenerator_KeepsFlag ==
  /\ pc \notin {"not_started", "done", "thrown", "returned"}
  /\ pc' = "returned"
  /\ UNCHANGED <<config, envApiKey, state, llmClients, round, expertOrder, turnIdx,
                 debateStyle, fullContent, events, roundLog, streamCalls, consensusCalls,
                 analysisOutcome, prompt, stream, clientObjects, discussion, rosterAtStart,
                 isAborted, sent, eventsAfterAbort, clientStore, llm, rateLimiter, checkLog,
                 budget>>

\* return() on the suspended generator: the finally of runDiscussion runs
ReturnGenerator ==
  /\ pc \notin {"not_started", "done", "thrown", "returned"}
  /\ pc' = "returned"
  /\ state' = [state EXCEPT !.isRunning = FALSE]
  /\ UNCHANGED <<config, envApiKey, llmClients, round, expertOrder, turnIdx,
                 debateStyle, fullContent, events, roundLog, streamCalls, consensusCalls,
                 analysisOutcome, prompt, stream, clientObjects, discussion, rosterAtStart,
                 isAborted, sent, eventsAfterAbort, clientStore, llm, rateLimiter, checkLog,
                 budget>>

\* mutant: the loop never looks at the abort flag
LoopBreaks_Never == FALSE

\* the loop's test on an event that arrives after the client has gone
LoopBreaks == isAborted /\ eventsAfterAbort > 0

\* the loop leaves by break, which returns the generator
BreakLoop ==
  /\ LoopBreaks
  /\ ReturnGenerator

\* runs of at most two turns: the analysis never needs the client
RouteNext ==
  \/ ~LoopBreaks /\ StartRun
  \/ ~LoopBreaks /\ OpenStream
  \/ ~LoopBreaks /\ StreamToken
  \/ ~LoopBreaks /\ StreamEnd
  \/ ~LoopBreaks /\ StreamFail
  \/ ~LoopBreaks /\ AfterTurn
  \/ ~LoopBreaks /\ AfterModeratorPrompt
  \/ ~LoopBreaks /\ AfterRoundComplete
  \/ ~LoopBreaks /\ Finish
  \/ BreakLoop
  \/ cleanup
  \/ streamGET

RouteSpec == RouteInit /\ [][RouteNext]_vars

\* ---------------------------------------------------- components on their own
\* an engine that is constructed and never run, while another component acts
Standby ==
  /\ config = [totalRounds |-> 1, experts |-> <<[id |-> 1, aiModel |-> NoModel]>>,
               moderatorMode |-> FALSE, model |-> DefaultModel]
  /\ envApiKey = TRUE
  /\ EngineConstructed
  /\ ConsumerAttached
  /\ discussion = NoDiscussion
  /\ budget = NoBudget

\* ------------------------------------------------------ the completion client
\* One LLMClient, constructed with any maxRetries of ConfiguredRetries, on
\* which up to MaxCalls calls are made one after the other; every request to
\* the provider may succeed or fail, and a stream may fail after any chunk.
ClientInit ==
  /\ Standby
  /\ llm \in {NewLLMClient(configured) : configured \in ConfiguredRetries}
  /\ rateLimiter = NewRateLimiter
  /\ checkLog = NoChecks

\* what every step of the client leaves alone
ClientFrame ==
  UNCHANGED <<config, envApiKey, state, llmClients, pc, round, expertOrder, turnIdx,
              debateStyle, fullContent, events, roundLog, streamCalls, consensusCalls,
              analysisOutcome, prompt, stream, clientObjects, discussion, rosterAtStart,
              isAborted, sent, eventsAfterAbort, clientStore, rateLimiter, checkLog, budget>>

\* a call is made on the client: generateResponse enters its loop with attempt 0,
\* generateStream builds its request
CallClient ==
  /\ llm.outcome # "pending"
  /\ llm.calls < MaxCalls
  /\ \E call \in {"generateResponse", "generateStream"} :
       llm' = [llm EXCEPT !.call = call, !.attempts = 0, !.chunks = 0, !.calls = @ + 1,
                          !.outcome = IF call = "generateResponse" /\ ~(0 < llm.maxRetries)
                                        THEN "LLMClientError" ELSE "pending"]
  /\ ClientFrame

\* generateResponse: the request of an attempt is answered
ResponseArrives ==
  /\ llm.call = "generateResponse"
  /\ llm.outcome = "pending"
  /\ llm' = [llm EXCEPT !.attempts = @ + 1, !.outcome = "returned"]
  /\ ClientFrame

\* generateResponse: the request of an attempt fails; retry after the delay
\* unless this was attempt maxRetries - 1
ResponseFails ==
  /\ llm.call = "generateResponse"
  /\ llm.outcome = "pending"
  /\ llm' = [llm EXCEPT !.attempts = @ + 1,
                        !.outcome = IF llm.attempts < llm.maxRetries - 1
                                      THEN "pending" ELSE "LLMClientError"]
  /\ ClientFrame

\* generateStream: the request is accepted and the stream opens
StreamOpens ==
  /\ llm.call = "generateStream"
  /\ llm.outcome = "pending"
  /\ llm.attempts = 0
  /\ llm' = [llm EXCEPT !.attempts = 1]
  /\ ClientFrame

\* generateStream: a chunk with content is yielded
ChunkArrives ==
  /\ llm.call = "generateStream"
  /\ llm.outcome = "pending"
  /\ llm.attempts = 1
  /\ llm.chunks < MaxFragments
  /\ llm' = [llm EXCEPT !.chunks = @ + 1]
  /\ ClientFrame

\* generateStream: the stream ends and the generator returns
StreamCompletes ==
  /\ llm.call = "generateStream"
  /\ llm.outcome = "pending"
  /\ llm.attempts = 1
  /\ llm' = [llm EXCEPT !.outcome = "returned"]
  /\ ClientFrame

\* generateStream: the request or the open stream fails; the catch throws
\* LLMClientError
StreamBreaks ==
  /\ llm.call = "generateStream"
  /\ llm.outcome = "pending"
  /\ llm' = [llm EXCEPT !.attempts = 1, !.outcome = "LLMClientError"]
  /\ ClientFrame

ClientNext ==
  \/ CallClient
  \/ ResponseArrives
  \/ ResponseFails
  \/ StreamOpens
  \/ ChunkArrives
  \/ StreamCompletes
  \/ StreamBreaks

ClientSpec == ClientInit /\ [][ClientNext]_vars

\* ---------------------------------------------------- the rate limiter at work
\* Requests of the clients of ClientIds under the limit types of LimitTypes,
\* up to MaxChecks of them, while the clock advances up to MaxTicks times by
\* half a window or a millisecond more, and the cleanup timer fires.
LimiterInit ==
  /\ Standby
  /\ ComponentsIdle

\* a request that calls checkRateLimit
CheckRequest ==
  /\ checkLog.calls < MaxChecks
  /\ \E id \in ClientIds, limitType \in LimitTypes :
       /\ rateLimiter' = [rateLimiter EXCEPT
                            !.store = checkRateLimit(rateLimiter, id, limitType).store]
       /\ checkLog' = Logged(checkLog, rateLimiter, id, limitType)
  /\ UNCHANGED <<config, envApiKey, state, llmClients, pc, round, expertOrder, turnIdx,
                 debateStyle, fullContent, events, roundLog, streamCalls, consensusCalls,
                 analysisOutcome, prompt, stream, clientObjects, discussion, rosterAtStart,
                 isAborted, sent, eventsAfterAbort, clientStore, llm, budget>>

\* Date.now() moves on
ClockAdvances ==
  /\ rateLimiter.now < MaxTicks * (WindowMs \div 2)
  /\ \E ms \in {WindowMs \div 2, WindowMs \div 2 + 1} :
       rateLimiter' = [rateLimiter EXCEPT !.now = @ + ms]
  /\ UNCHANGED <<config, envApiKey, state, llmClients, pc, round, expertOrder, turnIdx,
                 debateStyle, fullContent, events, roundLog, streamCalls, consensusCalls,
                 analysisOutcome, prompt, stream, clientObjects, discussion, rosterAtStart,
                 isAborted, sent, eventsAfterAbort, clientStore, llm, checkLog, budget>>

\* RateLimiter.cleanup, on its timer: expired entries are deleted
limiterCleanup ==
  /\ \E k \in RateLimitKeys :
       rateLimiter.store[k] # NoEntry /\ rateLimiter.store[k].resetTime < rateLimiter.now
  /\ rateLimiter' = [rateLimiter EXCEPT
                       !.store = [k \in RateLimitKeys |->
                                    IF @[k].resetTime < rateLimiter.now THEN NoEntry ELSE @[k]]]
  /\ UNCHANGED <<config, envApiKey, state, llmClients, pc, round, expertOrder, turnIdx,
                 debateStyle, fullContent, events, roundLog, streamCalls, consensusCalls,
                 analysisOutcome, prompt, stream, clientObjects, discussion, rosterAtStart,
                 isAborted, sent, eventsAfterAbort, clientStore, llm, checkLog, budget>>

LimiterNext ==
  \/ CheckRequest
  \/ ClockAdvances
  \/ limiterCleanup

LimiterSpec == LimiterInit /\ [][LimiterNext]_vars

\* ------------------------------------------------------- the life of a run
\* The runs of Spec, any of which its consumer may abandon at an event by
\* returning the generator.
LifecycleNext ==
  \/ Next
  \/ ReturnGenerator

LifecycleSpec == Init /\ [][LifecycleNext]_vars

TypeOK ==
  /\ pc \in {"not_started", "expert_start", "streaming", "expert_complete", "error",
             "moderator_prompt", "analyzing", "round_complete", "discussion_complete",
             "done", "thrown", "returned"}
  /\ round \in 0..config.totalRounds
  /\ state.consensusScore \in 0..100

\* ------------------------------------------------------------------ claims
\* a round_complete event that meets the early-consensus condition of the specification
ClaimEarly(ev) == ev.round >= 3 /\ ev.consensusScore > 85

\* the run has yielded discussion_complete
RunCompleted == pc \in {"discussion_complete", "done"}

RoundCompleteSeen == \E i \in 1..Len(events) : events[i].type = "round_complete"

\* C1: a run that completes without early consensus has yielded exactly
\* totalRounds round_complete events, numbered 1, 2, ..., totalRounds in that
\* order, and every round has yielded exactly one expert_start per expert by
\* the time its round_complete is yielded (failed turns included).
C1_RoundsAndStarts ==
  /\ \A i \in 1..Len(roundLog) : roundLog[i].round = i
  /\ (RunCompleted /\ \A i \in 1..Len(roundLog) : ~ClaimEarly(roundLog[i]))
        => Len(roundLog) = config.totalRounds
  /\ RoundCompleteSeen =>
        /\ CountOf(events, "expert_start") = Len(config.experts)
        /\ \A i \in IndexesOf(events, "expert_start") : events[i].round = Last(roundLog).round

\* a two-round run of two experts has ended, one turn of its last round having failed
C1_Witness ==
  /\ pc = "done"
  /\ config.totalRounds = 2
  /\ Len(config.experts) = 2
  /\ Len(roundLog) = 2
  /\ CountOf(events, "error") = 1

\* an expert_start precedes position i with nothing but token events in between
OpenTurnBefore(evs, i) ==
  \E j \in 1..(i - 1) :
    /\ evs[j].type = "expert_start"
    /\ \A k \in (j + 1)..(i - 1) : evs[k].type = "token"

\* C2: turns and rounds never overlap.  After an expert_start only token
\* events come before the turn's expert_complete or error; token,
\* expert_complete and error events only occur inside such a bracket; a
\* round_complete comes after the last turn of its round has terminated, is
\* followed by no event of that round, and every expert_start of round r comes
\* after the round_complete events of rounds 1..r-1.
C2_NoOverlap ==
  \A i \in 1..Len(events) :
    LET t == events[i].type
    IN  /\ t \in {"token", "expert_complete", "error"} => OpenTurnBefore(events, i)
        /\ (i > 1 /\ events[i - 1].type \in {"expert_start", "token"})
              => t \in {"token", "expert_complete", "error"}
        /\ t = "round_complete" =>
              /\ i > 1 /\ events[i - 1].type \in {"expert_complete", "error", "moderator_prompt"}
              /\ \A k \in (i + 1)..Len(events) : events[k].type = "discussion_complete"
              /\ events[i].round = state.currentRound
        /\ t = "expert_start" =>
              /\ events[i].round = state.currentRound
              /\ \A r \in 1..(events[i].round - 1) : Len(roundLog) >= r /\ roundLog[r].round = r

\* round 2 has completed after a turn that failed in the middle of its stream
C2_Witness ==
  /\ state.currentRound = 2
  /\ Last(events).type = "round_complete"
  /\ \E i \in 1..(Len(events) - 2) :
       /\ events[i].type = "expert_start"
       /\ events[i + 1].type = "token"
       /\ events[i + 2].type = "error"

\* C3: a round_complete of a round >= 3 with a score above 0.85 is the last
\* round_complete of the run, and after it nothing but discussion_complete is
\* yielded: the engine starts no further round whatever totalRounds is.
C3_EarlyConsensusStops ==
  /\ \A i \in 1..(Len(roundLog) - 1) : ~ClaimEarly(roundLog[i])
  /\ (Len(roundLog) > 0 /\ ClaimEarly(Last(roundLog))) =>
        /\ pc \in {"round_complete", "discussion_complete", "done"}
        /\ state.currentRound = Last(roundLog).round
        /\ \E i \in 1..Len(events) :
             /\ events[i] = Last(roundLog)
             /\ \A k \in (i + 1)..Len(events) : events[k].type = "discussion_complete"

\* the run has ended on early consensus with configured rounds left
C3_Witness ==
  /\ pc = "done"
  /\ Len(roundLog) > 0
  /\ ClaimEarly(Last(roundLog))
  /\ Last(roundLog).round < config.totalRounds

\* C4: a run that has ended has yielded exactly one discussion_summary event
\* directly followed by exactly one discussion_complete event, its last event.
C4_SummaryThenComplete ==
  pc = "done" =>
    /\ CountOf(events, "discussion_summary") = 1
    /\ CountOf(events, "discussion_complete") = 1
    /\ Len(events) >= 2
    /\ events[Len(events) - 1].type = "discussion_summary"
    /\ Last(events).type = "discussion_complete"

\* C5: a started run whose events keep being consumed and whose completion
\* calls all end does not stop before discussion_complete: whenever the
\* generator has no step left, discussion_complete has been yielded.
C5_CompleteReached ==
  (pc # "not_started" /\ ~ENABLED EngineStep) => CountOf(events, "discussion_complete") = 1

\* C6: runDiscussion never throws, and a run that has yielded
\* discussion_complete before round totalRounds completed stopped on a
\* round_complete of a round >= 3 with a score above 0.85.
C6_OnlyEarlyConsensusStops ==
  /\ pc # "thrown"
  /\ (RunCompleted /\ Len(roundLog) < config.totalRounds)
        => (Len(roundLog) > 0 /\ ClaimEarly(Last(roundLog)))

\* C7: a turn that is given up with an error event has invoked the streaming
\* completion call exactly 3 times.
C7_ThreeAttempts == pc = "error" => streamCalls = 3

\* the number of the turn, within its round, that the event at position i belongs to
TurnNumber(evs, i) == Cardinality({j \in 1..i : evs[j].type = "expert_start"})

\* C8: a turn whose stream fails yields exactly one error event and no
\* expert_complete event (the error closes a bracket of token events only),
\* the generator stays parked at that yield instead of ending, and what the
\* round yields next is the moderator prompt (moderator mode), then the
\* expert_start of the next expert of the round's order, or round_complete
\* after the last expert.
C8_FailedTurnContained ==
  /\ (Len(events) > 0 /\ Last(events).type = "error") => pc = "error"
  /\ \A i \in IndexesOf(events, "error") :
       LET n == TurnNumber(events, i)
           rest == SubSeq(events, i + 1, Len(events))
           after == IF config.moderatorMode /\ Len(rest) > 0 THEN Tail(rest) ELSE rest
       IN  /\ OpenTurnBefore(events, i)
           /\ events[i].expertId = expertOrder[n].id
           /\ (config.moderatorMode /\ Len(rest) > 0) => rest[1].type = "moderator_prompt"
           /\ Len(after) > 0 =>
                IF n < Len(config.experts)
                  THEN /\ after[1].type = "expert_start"
                       /\ after[1].expertId = expertOrder[n + 1].id
                       /\ after[1].round = state.currentRound
                  ELSE after[1].type = "round_complete"
           /\ Len(after) = 0 => pc \in {"error", "moderator_prompt", "analyzing"}

\* a stream failed after a fragment and the next expert's turn has started
C8_Witness ==
  \E i \in 1..(Len(events) - 2) :
    /\ events[i].type = "token"
    /\ events[i + 1].type = "error"
    /\ events[i + 2].type = "expert_start"
    /\ events[i + 2].expertId # events[i + 1].expertId

\* C9: when consensus analysis starts with fewer than 5 messages in the log
\* (expert and moderator messages alike), the same step yields round_complete
\* with score 0, stores 0 as the consensus score and invokes no completion call.
C9_ShortLogScoresZero ==
  [][(/\ pc \in {"expert_complete", "error", "moderator_prompt"}
      /\ pc' \in {"analyzing", "round_complete"}
      /\ Len(state.messages) < 5)
        => (/\ pc' = "round_complete"
            /\ Last(events').type = "round_complete"
            /\ Last(events').consensusScore = 0
            /\ state'.consensusScore = 0
            /\ consensusCalls' = consensusCalls)]_vars

\* a round has completed on a log of 3 expert messages and 1 moderator message
\* that was appended before the last turn ended, no completion call made
C9_Witness ==
  /\ pc = "round_complete"
  /\ Len(state.messages) = 4
  /\ \E i \in 1..3 : state.messages[i].role = "MODERATOR"
  /\ state.messages[4].role = "EXPERT"
  /\ consensusCalls = 0
  /\ Last(events).consensusScore = 0

\* C10: when the consensus-analysis call raises or its reply is no number, the
\* round's score is 0.5: it is the stored score and the score of the
\* round_complete event, which is yielded right after the last turn, and every
\* error event of the round closes a failed turn (none reports the analysis).
C10_AnalysisFailureAbsorbed ==
  analysisOutcome \in {"error", "abc"} =>
    /\ state.consensusScore = 50
    /\ \E i \in 2..Len(events) :
         /\ events[i].type = "round_complete"
         /\ events[i].consensusScore = 50
         /\ events[i].round = state.currentRound
         /\ events[i - 1].type \in {"expert_complete", "error", "moderator_prompt"}
    /\ \A i \in IndexesOf(events, "error") : OpenTurnBefore(events, i)

\* the analysis call raised and the round completed with 0.5
C10_Witness ==
  /\ analysisOutcome = "error"
  /\ pc = "round_complete"
  /\ Last(events).consensusScore = 50

\* the styles of the expert_start events, in order
StylesAssigned(evs) ==
  LET starts == SelectSeq(evs, LAMBDA ev : ev.type = "expert_start")
  IN  [i \in 1..Len(starts) |-> starts[i].debateStyle]

\* the used styles were reset in the running round: fewer styles are recorded
\* as used than turns have been started
StylesWereReset == Len(state.usedStylesThisRound) < CountOf(events, "expert_start")

\* C11: within one round, a turn is assigned the style challenging for the
\* second time only when each of the other 4 styles has been assigned in the
\* round before it, unless the used styles were reset earlier in the round.
C11_ChallengingNotRepeatedEarly ==
  [][(/\ state'.currentRound = state.currentRound
      /\ CountOf(events', "expert_start") = CountOf(events, "expert_start") + 1
      /\ Last(events').debateStyle = "challenging"
      /\ "challenging" \in Range(StylesAssigned(events))
      /\ ~StylesWereReset)
        => \A style \in Range(DEBATE_STYLES) : style \in Range(StylesAssigned(events))]_vars

\* the sixth turn of a round was assigned challenging, by the reset of the used styles
C11_Witness ==
  /\ CountOf(events, "expert_start") = 6
  /\ Last(events).debateStyle = "challenging"
  /\ "challenging" \in Range(SubSeq(StylesAssigned(events), 1, 5))
  /\ state.usedStylesThisRound = <<>>

\* C12: when at least 4 rounds are configured, the expert_start events of round
\* totalRounds name the experts in the roster order the engine was constructed
\* with, one after the other.
C12_FinalRoundInRosterOrder ==
  (config.totalRounds >= 4 /\ state.currentRound = config.totalRounds) =>
    LET starts == SelectSeq(events, LAMBDA ev : ev.type = "expert_start")
    IN  \A i \in 1..Len(starts) :
          /\ starts[i].round = config.totalRounds
          /\ starts[i].expertId = rosterAtStart[i].id

\* a run of 4 rounds or more has ended: its last round went in roster order,
\* the round before it in the opposite order
C12_Witness ==
  /\ pc = "done"
  /\ config.totalRounds >= 4
  /\ state.currentRound = config.totalRounds
  /\ CountOf(events, "expert_start") = 2
  /\ \E i, j \in 1..Len(state.messages) :
       /\ i < j
       /\ state.messages[i].round = config.totalRounds - 1
       /\ state.messages[j].round = config.totalRounds - 1
       /\ state.messages[i].expertId = 2
       /\ state.messages[j].expertId = 1

\* the line getRecentContext renders for a moderator message
ModeratorLine(msg) == [speaker |-> "Moderator", content |-> msg.content]

\* positions of the moderator messages that close the log
TrailingModerators(messages) ==
  {i \in 1..Len(messages) : \A k \in i..Len(messages) : messages[k].role = "MODERATOR"}

\* the running turn has just yielded expert_start and the turn before it, in
\* the same round, ended with expert_complete: the moderator messages that
\* close the log were appended between the two turns
BetweenTwoTurns ==
  /\ pc = "expert_start"
  /\ turnIdx >= 2
  /\ LET back == IF config.moderatorMode THEN 2 ELSE 1
     IN  events[Len(events) - back].type = "expert_complete"

\* C13 as amended: when a turn's prompt is built and the last message of the
\* log is a MODERATOR message, the prompt's recent context ends with the line
\* rendered for that message and the prompt's moderator callout quotes it.
C13_LastInterjectionInPrompt ==
  [][(/\ pc = "expert_start"
      /\ pc' = "streaming"
      /\ Len(state.messages) > 0
      /\ Last(state.messages).role = "MODERATOR")
        => (/\ prompt'.expertId = expertOrder[turnIdx].id
            /\ Len(prompt'.recentContext) > 0
            /\ Last(prompt'.recentContext) = ModeratorLine(Last(state.messages))
            /\ prompt'.moderatorCallout = Last(state.messages).content)]_vars

\* two moderator messages were appended between the first and the second turn
\* of a round; the second turn's prompt renders both and quotes the later one
C13_Witness ==
  /\ pc = "streaming"
  /\ turnIdx = 2
  /\ Len(state.messages) = 3
  /\ state.messages[1].role = "EXPERT"
  /\ state.messages[2].role = "MODERATOR" /\ state.messages[2].content = <<"q">>
  /\ state.messages[3].role = "MODERATOR" /\ state.messages[3].content = <<"r">>
  /\ Len(prompt.recentContext) = 3
  /\ prompt.recentContext[2] = ModeratorLine(state.messages[2])
  /\ prompt.recentContext[3] = ModeratorLine(state.messages[3])
  /\ prompt.moderatorCallout = <<"r">>

\* C13 as stated: every MODERATOR message appended between two turns is
\* rendered in the recent context of the next turn's prompt and quoted by
\* that prompt's moderator callout.
C13_EveryInterjectionInPrompt ==
  [][(BetweenTwoTurns /\ pc' = "streaming")
        => \A i \in TrailingModerators(state.messages) :
             /\ ModeratorLine(state.messages[i]) \in Range(prompt'.recentContext)
             /\ prompt'.moderatorCallout = state.messages[i].content]_vars

\* C14: in moderator mode, when the engine builds a turn's prompt during a
\* served run, every comment the moderate endpoint has accepted and stored is
\* in the engine's message log, as a MODERATOR message of the same content.
C14_AcceptedCommentReachesEngine ==
  [][(/\ pc = "expert_start"
      /\ pc' = "streaming"
      /\ discussion.status = "IN_PROGRESS"
      /\ discussion.moderatorMode)
        => \A i \in 1..Len(discussion.messages) :
             discussion.messages[i].role = "MODERATOR" =>
               \E j \in 1..Len(state.messages) :
                 /\ state.messages[j].role = "MODERATOR"
                 /\ state.messages[j].content = discussion.messages[i].content]_vars

\* the model an expert of the roster had when the engine was constructed
ModelAtStart(id) ==
  IF rosterAtStart[id].aiModel # NoModel THEN rosterAtStart[id].aiModel ELSE config.model

\* C15: whatever updateExpert does to the stored experts while a run is in
\* flight, the run's turns keep using the expert data the engine was
\* constructed with: every completion client the run has resolved is for the
\* fallback model or for the model an expert had at construction.
C15_RunUsesRosterAtStart ==
  llmClients \subseteq ({config.model} \cup {ModelAtStart(id) : id \in 1..Len(rosterAtStart)})

\* C16: a completion-client configuration error is raised before the run has
\* yielded any event: when runDiscussion has thrown, no expert_start and no
\* round_complete was yielded before.
C16_ConfigErrorBeforeEvents ==
  pc = "thrown" => (events = <<>> /\ roundLog = <<>>)

\* C17: a run that has yielded discussion_complete without a usable summary
\* reply (the engine never obtains one) has yielded, right before it, a
\* discussion_summary event carrying the fallback summary: sentiment neutral,
\* consensusLevel the stored consensus score; and no error event reports the
\* summary (every error event closes a failed turn).
C17_FallbackSummaryEmitted ==
  RunCompleted =>
    /\ \E i \in 1..(Len(events) - 1) :
         /\ events[i].type = "discussion_summary"
         /\ events[i].summary.sentiment = "neutral"
         /\ events[i].summary.consensusLevel = state.consensusScore
         /\ events[i + 1].type = "discussion_complete"
    /\ \A i \in IndexesOf(events, "error") : OpenTurnBefore(events, i)

\* C18: with moderator mode on, every expert_complete and every error event
\* is directly followed by one moderator_prompt event for the same expert and
\* moderator_prompt occurs nowhere else; with moderator mode off it never
\* occurs; and the run can always be resumed from a moderator_prompt, whether
\* or not a moderator message was appended.
C18_PromptAfterEveryTurn ==
  /\ ~config.moderatorMode => CountOf(events, "moderator_prompt") = 0
  /\ config.moderatorMode =>
       \A i \in 1..Len(events) :
         /\ (events[i].type \in {"expert_complete", "error"} /\ i < Len(events))
               => events[i + 1].type = "moderator_prompt"
         /\ events[i].type = "moderator_prompt"
               => /\ i > 1
                  /\ events[i - 1].type \in {"expert_complete", "error"}
                  /\ events[i].expertId = events[i - 1].expertId
  /\ (config.moderatorMode /\ pc \in {"expert_complete", "error"}) => ENABLED AfterTurn
  /\ pc = "moderator_prompt" => ENABLED AfterModeratorPrompt

\* a round of two turns, one failed, has completed in moderator mode: each
\* turn was followed by its prompt and no moderator message was ever appended
C18_Witness ==
  /\ config.moderatorMode
  /\ pc = "round_complete"
  /\ CountOf(events, "moderator_prompt") = 2
  /\ CountOf(events, "error") = 1
  /\ CountOf(events, "expert_complete") = 1
  /\ \A j \in 1..Len(state.messages) : state.messages[j].role = "EXPERT"

\* the EXPERT messages of the given round
ExpertMessagesOf(messages, r) ==
  SelectSeq(messages, LAMBDA msg : msg.role = "EXPERT" /\ msg.round = r)

\* C19: no step of a turn that ends in failure (opening the stream, a fragment
\* with its token event, the failure with its error event) changes the engine
\* state: message log, tracked key points, used styles, round and score stay
\* as they were at expert_start; and when the error event is yielded, the
\* round's EXPERT messages are those of its expert_complete events.
C19_FailedTurnLeavesState ==
  [][(/\ pc \in {"expert_start", "streaming"}
      /\ pc' \in {"streaming", "error"}
      /\ (pc' # pc \/ events' # events))
        => (/\ state' = state
            /\ pc' = "error" =>
                  Len(ExpertMessagesOf(state'.messages, state'.currentRound))
                    = CountOf(events', "expert_complete"))]_vars

\* a turn failed after a fragment holding a key point had been yielded as a
\* token event: the log is empty and no key point is tracked
C19_Witness ==
  /\ pc = "error"
  /\ Len(events) = 3
  /\ events[2].type = "token"
  /\ extractKeyPoints(<<events[2].content>>) # <<>>
  /\ state.messages = <<>>
  /\ \A e \in DOMAIN state.expertPositions : state.expertPositions[e] = <<>>

\* characters of a fragment
TokenLength(token) ==
  CASE token = "Ok." -> 3
    [] token = "Cache every page at the edge." -> 29
    [] OTHER -> 0

RECURSIVE ContentLength(_)
\* characters of the accumulated content
ContentLength(content) ==
  IF content = <<>> THEN 0 ELSE TokenLength(Head(content)) + ContentLength(Tail(content))

\* C20: a turn whose stream completes with fewer than 20 accumulated
\* characters is a failure: every expert_complete event and every EXPERT
\* message of the log carries at least 20 characters.
C20_ShortReplyIsFailure ==
  /\ \A i \in IndexesOf(events, "expert_complete") : ContentLength(events[i].fullContent) >= 20
  /\ \A j \in 1..Len(state.messages) :
       state.messages[j].role = "EXPERT" => ContentLength(state.messages[j].content) >= 20

\* position of the expert_start that opens the turn the event at position i belongs to
TurnStart(evs, i) ==
  CHOOSE j \in 1..i :
    /\ evs[j].type = "expert_start"
    /\ \A k \in (j + 1)..i : evs[k].type # "expert_start"

\* the contents of the events at positions (j + 1)..(i - 1), in order
ContentsBetween(evs, j, i) == [k \in 1..(i - j - 1) |-> evs[j + k].content]

\* C21: for every expert_complete event, the events since its turn's
\* expert_start are token events, and the in-order concatenation of their
\* contents is the event's fullContent and the content of the message the turn
\* appended to the log.
C21_ContentIsTokensInOrder ==
  \A i \in IndexesOf(events, "expert_complete") :
    LET j == TurnStart(events, i)
    IN  /\ \A k \in (j + 1)..(i - 1) : events[k].type = "token"
        /\ events[i].fullContent = ContentsBetween(events, j, i)
        /\ \E n \in 1..Len(state.messages) :
             /\ state.messages[n].role = "EXPERT"
             /\ state.messages[n].id = events[i].messageId
             /\ state.messages[n].expertId = events[j].expertId
             /\ state.messages[n].round = events[j].round
             /\ state.messages[n].content = ContentsBetween(events, j, i)

\* a turn has completed after two different fragments
C21_Witness ==
  \E i \in 4..Len(events) :
    /\ events[i].type = "expert_complete"
    /\ events[i - 3].type = "expert_start"
    /\ events[i - 2].type = "token" /\ events[i - 2].content = "Cache every page at the edge."
    /\ events[i - 1].type = "token" /\ events[i - 1].content = "Ok."
    /\ Len(events[i].fullContent) = 2

\* C22: every step leaves the message log as it was or appends one message to
\* it (the old log is a prefix of the new one); the step that yields
\* expert_complete appends exactly one EXPERT message, an addModeratorMessage
\* call appends exactly one MODERATOR message, and no other step changes the log.
C22_LogAppendOnly ==
  [][LET old == state.messages
         new == state'.messages
         turnCompletes == pc = "streaming" /\ pc' = "expert_complete"
         moderatorAppends == budget'.moderator < budget.moderator
     IN  /\ Len(new) >= Len(old)
         /\ SubSeq(new, 1, Len(old)) = old
         /\ turnCompletes => (Len(new) = Len(old) + 1 /\ Last(new).role = "EXPERT")
         /\ moderatorAppends => (Len(new) = Len(old) + 1 /\ Last(new).role = "MODERATOR")
         /\ ~(turnCompletes \/ moderatorAppends) => new = old]_vars

\* the log holds a moderator message between the messages of two turns
C22_Witness ==
  /\ Len(state.messages) >= 3
  /\ state.messages[1].role = "EXPERT"
  /\ state.messages[2].role = "MODERATOR"
  /\ state.messages[3].role = "EXPERT"

\* C23: once a round has started 3 turns, one of its first three expert_start
\* events carries the style challenging.
C23_ChallengingInFirstThree ==
  CountOf(events, "expert_start") >= 3 =>
    "challenging" \in Range(SubSeq(StylesAssigned(events), 1, 3))

\* the third turn of a round got challenging after two turns with other
\* styles, the first of which failed
C23_Witness ==
  /\ CountOf(events, "expert_start") = 3
  /\ StylesAssigned(events)[1] # "challenging"
  /\ StylesAssigned(events)[2] # "challenging"
  /\ StylesAssigned(events)[3] = "challenging"
  /\ events[2].type = "error"

\* C24: the styles assigned to the first five turns of a round are pairwise
\* distinct, whatever the outcome of the turns.
C24_FirstFiveStylesDistinct ==
  LET styles == StylesAssigned(events)
  IN  \A i, j \in 1..Min(5, Len(styles)) : i # j => styles[i] # styles[j]

\* five turns of a round have started, two of the earlier ones having failed
C24_Witness ==
  /\ CountOf(events, "expert_start") = 5
  /\ CountOf(events, "error") = 2
  /\ Range(StylesAssigned(events)) = Range(DEBATE_STYLES)

\* C25: once a style has been selected in a round, the style selected last is
\* in the used-styles set of the round, also when it was selected by the call
\* that reset the set.
C25_SelectedStyleIsUsed ==
  CountOf(events, "expert_start") > 0 =>
    Last(StylesAssigned(events)) \in Range(state.usedStylesThisRound)

\* the ids named by the expert_start events of the running round, in order
StartedIds(evs) ==
  LET starts == SelectSeq(evs, LAMBDA ev : ev.type = "expert_start")
  IN  [i \in 1..Len(starts) |-> starts[i].expertId]

\* C26: the expert_start events of a round name experts of the roster, none
\* twice, and all of them once the round's turns are over; the configured
\* roster keeps the order it had at construction.
C26_RoundIsPermutation ==
  LET ids == StartedIds(events)
  IN  /\ \A i, j \in 1..Len(ids) : i # j => ids[i] # ids[j]
      /\ Range(ids) \subseteq {config.experts[i].id : i \in 1..Len(config.experts)}
      /\ (pc = "analyzing" \/ CountOf(events, "round_complete") > 0) =>
            Len(ids) = Len(config.experts)
      /\ config.experts = rosterAtStart

\* round 2 has run to its end in an order that is not the roster's
C26_Witness ==
  /\ round = 2
  /\ CountOf(events, "round_complete") = 1
  /\ Len(config.experts) = 2
  /\ StartedIds(events) = <<2, 1>>

\* the turns of the running round that have terminated, completed or failed
TurnsTerminated(evs) == CountOf(evs, "expert_complete") + CountOf(evs, "error")

\* every turn of the running round has terminated and round_complete is not out
AllTurnsOver ==
  /\ TurnsTerminated(events) = Len(expertOrder)
  /\ CountOf(events, "round_complete") = 0

\* C27: the consensus client is asked at most once per round, after the last
\* turn has terminated and before round_complete; the stored score changes only
\* in the step that yields round_complete, which carries the stored score.
C27_AnalysisOncePerRound ==
  [][ /\ (state'.consensusScore # state.consensusScore \/ roundLog' # roundLog) =>
            /\ AllTurnsOver
            /\ events' = Append(events, Last(events'))
            /\ roundLog' = Append(roundLog, Last(events'))
            /\ Last(events').type = "round_complete"
            /\ Last(events').round = state.currentRound
            /\ Last(events').consensusScore = state'.consensusScore
      /\ consensusCalls' # consensusCalls =>
            /\ AllTurnsOver
            /\ consensusCalls' = consensusCalls + 1
            /\ pc # "analyzing" /\ pc' = "analyzing"
      /\ (pc = "analyzing" /\ pc' # pc) =>
            (pc' = "round_complete" /\ roundLog' # roundLog) ]_vars

\* three rounds have completed, the third one with an analysis by the client
\* that changed the stored score
C27_Witness ==
  /\ pc = "round_complete"
  /\ Len(roundLog) = 3
  /\ consensusCalls = 1
  /\ roundLog[2].consensusScore = 0
  /\ roundLog[3].consensusScore = DefaultConsensus
  /\ state.consensusScore = DefaultConsensus

\* C28: in a discussion of 3 rounds, round 3 is not scheduled in roster order
\* and its turns are streamed with the regular temperature and prompted with
\* the regular focus instruction.
C28_RoundThreeOfThreeNotFinal ==
  (config.totalRounds = 3 /\ round = 3) =>
    /\ ~IsFinalRound(round)
    /\ pc = "streaming" =>
          /\ stream.temperature = RegularTemperature
          /\ prompt.focusInstruction = "fresh perspectives"

\* C29: a turn streams from a client of the expert's override model, or of the
\* discussion's model without an override; the engine holds at most one client
\* per model, the first of them the one supplied at construction.
C29_OneClientPerModel ==
  /\ pc = "streaming" =>
        LET expert == expertOrder[turnIdx]
        IN  /\ stream.model = (IF expert.aiModel # NoModel THEN expert.aiModel ELSE config.model)
            /\ stream.model \in Range(clientObjects)
  /\ \A i, j \in 1..Len(clientObjects) : i # j => clientObjects[i] # clientObjects[j]
  /\ clientObjects[1] = config.model
  /\ Range(clientObjects) = llmClients

\* the second turn of a round streams from the client created for the first
\* turn's expert, who has the same override
C29_Witness ==
  /\ pc = "streaming"
  /\ turnIdx = 2
  /\ \A i \in 1..2 : expertOrder[i].aiModel = "m1"
  /\ stream.model = "m1"
  /\ clientObjects = <<DefaultModel, "m1">>

\* C30: a call of addModeratorMessage appends one MODERATOR message tagged
\* with the engine's current round to the log and changes nothing else: no
\* event, and the round, used styles, key points and score stay as they were.
C30_ModeratorMessageOnly ==
  [][ budget'.moderator # budget.moderator =>
        /\ Len(state'.messages) = Len(state.messages) + 1
        /\ SubSeq(state'.messages, 1, Len(state.messages)) = state.messages
        /\ Last(state'.messages).role = "MODERATOR"
        /\ Last(state'.messages).round = state.currentRound
        /\ state'.currentRound = state.currentRound
        /\ state'.usedStylesThisRound = state.usedStylesThisRound
        /\ state'.expertPositions = state.expertPositions
        /\ state'.consensusScore = state.consensusScore
        /\ state'.isRunning = state.isRunning
        /\ UNCHANGED <<events, roundLog, pc, round, expertOrder, turnIdx, fullContent,
                       streamCalls, consensusCalls, llmClients, config>> ]_vars

\* a comment was added before the run started, tagged round 0, and another
\* one during a later round, tagged with that round
C30_Witness ==
  /\ state.currentRound = 2
  /\ \E i, j \in 1..Len(state.messages) :
        /\ i < j
        /\ state.messages[i].role = "MODERATOR" /\ state.messages[i].round = 0
        /\ state.messages[j].role = "MODERATOR" /\ state.messages[j].round = 2

\* what the store keeps of a message: id, expert, content and round
Essentials(msg) ==
  [id |-> msg.id, expertId |-> msg.expertId, content |-> msg.content, round |-> msg.round]

\* the expert_complete events yielded in the running round, as the messages
\* they announce
CompletedInRound(evs) ==
  LET completes == SelectSeq(evs, LAMBDA ev : ev.type = "expert_complete")
  IN  [i \in 1..Len(completes) |->
         [id |-> completes[i].messageId, expertId |-> completes[i].expertId,
          content |-> completes[i].fullContent, round |-> round]]

\* C32: the store's message list is the list of the expert messages announced
\* by the expert_complete events handled so far, in order, each with the id,
\* expert and content of its event and the round of its turn; failed turns
\* and moderator messages add nothing.
C32_StoreReconstructsDiscussion ==
  LET announced == SelectSeq(state.messages, LAMBDA msg : msg.role = "EXPERT")
      shown == clientStore.messages
      inRound == SelectSeq(shown, LAMBDA msg : msg.round = round)
  IN  /\ Len(shown) = Len(announced)
      /\ \A i \in 1..Len(shown) : Essentials(shown[i]) = Essentials(announced[i])
      /\ pc \notin {"not_started", "thrown"} =>
            [i \in 1..Len(inRound) |-> Essentials(inRound[i])] = CompletedInRound(events)

\* the store holds messages of two rounds, after a turn that failed
C32_Witness ==
  /\ clientStore.error
  /\ Len(clientStore.messages) = 3
  /\ clientStore.messages[1].round = 1
  /\ clientStore.messages[3].round = 2
  /\ clientStore.messages[3].content # <<>>

\* C35: once discussion_complete has been handled, the store's status is
\* COMPLETED and no expert is shown as streaming, whatever the outcome of the
\* run's last turn.
C35_NothingStreamingWhenComplete ==
  pc \in {"discussion_complete", "done"} =>
    /\ clientStore.status = "COMPLETED"
    /\ clientStore.streamingExpert = NoStreamingExpert
    /\ clientStore.streamingContent = <<>>

\* C33: while the client of the stream is gone, no event is sent to it, the
\* engine yields at most the one event that was awaited, nothing is stored
\* for the discussion, and the discussion is PAUSED, never COMPLETED.
C33_NothingAfterDisconnect ==
  [][ isAborted' =>
        /\ discussion'.status = "PAUSED"
        /\ discussion'.messages = discussion.messages
        /\ eventsAfterAbort' <= 1
        /\ isAborted => (sent' = sent /\ clientStore' = clientStore)
        /\ (isAborted /\ eventsAfterAbort > 0) => events' = events ]_vars

\* the client went away during a turn; the fragment that was awaited arrived
\* and the generator was returned
C33_Witness ==
  /\ isAborted
  /\ pc = "returned"
  /\ eventsAfterAbort = 1
  /\ Last(events).type = "token"
  /\ discussion.status = "PAUSED"
  /\ sent < Len(events)

\* C34: a stream request does not start a run on a discussion that is
\* IN_PROGRESS or COMPLETED: the stored status never leaves COMPLETED, and the
\* stored messages are those of one run.
C34_OneRunPerDiscussion ==
  [][ /\ discussion.status = "COMPLETED" => discussion'.status = "COMPLETED"
      /\ Len(discussion'.messages) <= Turns(config) ]_vars

\* C37: the running flag is set exactly from the first request for an event
\* until the generator has ended: by returning after discussion_complete, by
\* an exception, or by its consumer returning it.
C37_RunningFlag ==
  state.isRunning <=> pc \notin {"not_started", "done", "thrown", "returned"}

\* a run abandoned in its second round, after its first round had completed
C37_Witness ==
  /\ pc = "returned"
  /\ ~state.isRunning
  /\ Len(roundLog) = 1
  /\ CountOf(events, "expert_start") = 1

\* the call just logged, made again on a limiter that holds no other key's entry
AloneUnderItsKey(rl, call) ==
  Checked([rl EXCEPT !.store = [k \in RateLimitKeys |-> IF k = call.key THEN @[k] ELSE NoEntry]],
          call.key[2], call.key[1])

\* C36: for every key, the allowed calls that were given one reset time number
\* at most the key's maxRequests; no call reports a negative remaining count;
\* a denied call leaves the limiter's entries as they were; and a call changes
\* no other key's entry and gets the result it would get with no other key
\* present.
C36_RateLimitPerKey ==
  [][ checkLog'.calls # checkLog.calls =>
        LET call == checkLog'.last
        IN  /\ \A k \in RateLimitKeys :
                 checkLog'.windows[k].allowed <= RATE_LIMITS(k[1]).maxRequests
            /\ call.remaining >= 0
            /\ ~call.allowed => rateLimiter'.store = rateLimiter.store
            /\ \A k \in RateLimitKeys \ {call.key} :
                 rateLimiter'.store[k] = rateLimiter.store[k]
            /\ call = AloneUnderItsKey(rateLimiter, call) ]_vars

\* a client's sixth stream request of one window is denied at the very
\* millisecond the window resets
C36_Witness ==
  /\ ~checkLog.last.allowed
  /\ checkLog.last.key[1] = "startStream"
  /\ checkLog.last.countBefore = StartStreamMax
  /\ checkLog.last.at = WindowMs
  /\ checkLog.last.resetIn = 0

\* the maxRetries a client was configured with (3 when none was given)
ConfiguredMaxRetries ==
  IF llm.configured.set THEN llm.configured.value ELSE DefaultMaxRetries

\* C31: generateResponse makes at most as many attempts as the client was
\* configured with and raises LLMClientError only when the last of them has
\* failed; generateStream makes one attempt and raises LLMClientError when it
\* fails, before or after chunks.
C31_RetriesOnlyWithoutStreaming ==
  /\ llm.call = "generateResponse" =>
        /\ llm.attempts <= ConfiguredMaxRetries
        /\ llm.outcome = "LLMClientError" => llm.attempts = ConfiguredMaxRetries
  /\ llm.call = "generateStream" =>
        /\ llm.attempts <= 1
        /\ llm.outcome = "LLMClientError" => llm.attempts = 1

====
